---- MODULE Spec2Model ----
(***************************************************************************)
(* Discount-impact simulation engine of the promotional-pricing dashboard: *)
(* the scenario handlers (GET routes), the golden-section optimizer, and   *)
(* the two components ProtectedLayout and PromotionsComparison.            *)
(*                                                                         *)
(* Numbers.  The handlers compute with JavaScript numbers.  The model      *)
(* computes the same expressions exactly: a finite number is               *)
(*      (m + n * r) / q      with r = 1/phi = (sqrt(5) - 1) / 2,           *)
(* m, n unbounded integers and q a positive unbounded integer, so that     *)
(* `(b - a) / gr` is the exact product by r (r * r = 1 - r).  NaN and the  *)
(* two infinities are separate values with the IEEE-754 rules.  Rounding   *)
(* of doubles is not modelled.                                             *)
(***************************************************************************)
EXTENDS Integers, Sequences, FiniteSets, TLC

(***************************************************************************)
(* Unbounded integers: sign s and magnitude d, little-endian limbs.        *)
(***************************************************************************)
Base == 100 * 100

RECURSIVE MagTrim(_)
MagTrim(x) ==
  IF x = <<>> THEN x
  ELSE IF x[Len(x)] = 0 THEN MagTrim(SubSeq(x, 1, Len(x) - 1)) ELSE x

RECURSIVE MagOfNat(_)
MagOfNat(k) == IF k = 0 THEN <<>> ELSE <<k % Base>> \o MagOfNat(k \div Base)

Limb(x, i) == IF i <= Len(x) THEN x[i] ELSE 0

RECURSIVE MagCmpFrom(_, _, _)
MagCmpFrom(x, y, i) ==
  IF i = 0 THEN 0
  ELSE IF x[i] # y[i] THEN (IF x[i] < y[i] THEN -1 ELSE 1)
  ELSE MagCmpFrom(x, y, i - 1)

MagCmp(x, y) ==
  IF Len(x) # Len(y) THEN (IF Len(x) < Len(y) THEN -1 ELSE 1)
  ELSE MagCmpFrom(x, y, Len(x))

RECURSIVE MagAddFrom(_, _, _, _)
MagAddFrom(x, y, i, carry) ==
  IF i > Len(x) /\ i > Len(y)
  THEN (IF carry = 0 THEN <<>> ELSE <<carry>>)
  ELSE LET s == Limb(x, i) + Limb(y, i) + carry
       IN  <<s % Base>> \o MagAddFrom(x, y, i + 1, s \div Base)

MagAdd(x, y) == MagAddFrom(x, y, 1, 0)

\* x - y for x >= y
RECURSIVE MagSubFrom(_, _, _, _)
MagSubFrom(x, y, i, borrow) ==
  IF i > Len(x) THEN <<>>
  ELSE LET s == x[i] - Limb(y, i) - borrow
       IN  IF s < 0 THEN <<s + Base>> \o MagSubFrom(x, y, i + 1, 1)
           ELSE <<s>> \o MagSubFrom(x, y, i + 1, 0)

MagSub(x, y) == MagTrim(MagSubFrom(x, y, 1, 0))

\* x * k for one limb k
RECURSIVE MagMulLimbFrom(_, _, _, _)
MagMulLimbFrom(x, k, i, carry) ==
  IF i > Len(x) THEN (IF carry = 0 THEN <<>> ELSE <<carry>>)
  ELSE LET s == x[i] * k + carry
       IN  <<s % Base>> \o MagMulLimbFrom(x, k, i + 1, s \div Base)

RECURSIVE MagMulFrom(_, _, _)
MagMulFrom(x, y, i) ==
  IF i > Len(x) THEN <<>>
  ELSE LET rest == MagMulFrom(x, y, i + 1)
           shifted == IF rest = <<>> THEN <<>> ELSE <<0>> \o rest
       IN  IF x[i] = 0 THEN shifted
           ELSE MagAdd(MagMulLimbFrom(y, x[i], 1, 0), shifted)

MagMul(x, y) == IF x = <<>> \/ y = <<>> THEN <<>> ELSE MagMulFrom(x, y, 1)

BZero == [s |-> 0, d |-> <<>>]
BI(k) == IF k = 0 THEN BZero
         ELSE IF k < 0 THEN [s |-> -1, d |-> MagOfNat(-k)]
         ELSE [s |-> 1, d |-> MagOfNat(k)]
BNeg(x) == [s |-> -x.s, d |-> x.d]
\* x + y for x and y of opposite signs, c comparing their magnitudes
BAddOpposite(x, y, c) ==
  IF c = 0 THEN BZero
  ELSE IF c > 0 THEN [s |-> x.s, d |-> MagSub(x.d, y.d)]
  ELSE [s |-> y.s, d |-> MagSub(y.d, x.d)]
BAdd(x, y) ==
  IF x.s = 0 THEN y
  ELSE IF y.s = 0 THEN x
  ELSE IF x.s = y.s THEN [s |-> x.s, d |-> MagAdd(x.d, y.d)]
  ELSE BAddOpposite(x, y, MagCmp(x.d, y.d))
BSub(x, y) == BAdd(x, BNeg(y))
BMul(x, y) ==
  IF x.s = 0 \/ y.s = 0 THEN BZero
  ELSE [s |-> x.s * y.s, d |-> MagMul(x.d, y.d)]
BCmp(x, y) == BSub(x, y).s

(***************************************************************************)
(* Z[r]: pairs (m, n) standing for m + n * r, with r * r = 1 - r.          *)
(***************************************************************************)
\* the sign of m + n * r: with u = 2m - n and v = n it is the sign of
\* u + v * sqrt(5), decided by comparing u * u with 5 * v * v
ZSignUV(u, v) ==
  IF u.s = 0 /\ v.s = 0 THEN 0
  ELSE IF u.s >= 0 /\ v.s >= 0 THEN 1
  ELSE IF u.s <= 0 /\ v.s <= 0 THEN -1
  ELSE u.s * BCmp(BMul(u, u), BMul(BI(5), BMul(v, v)))
ZSign(m, n) == ZSignUV(BSub(BAdd(m, m), n), n)

(***************************************************************************)
(* JavaScript numbers.  k is "fin", "nan", "pinf" or "ninf"; a finite      *)
(* number is (m + n * r) / q with q > 0.  Signed zeros are not told apart. *)
(***************************************************************************)
Fin(m, n, q) == [k |-> "fin", m |-> m, n |-> n, q |-> q]
\* x mod p and x div p for a magnitude x and 0 < p < Base
RECURSIVE MagModSmall(_, _, _)
MagModSmall(x, p, j) ==
  IF j > Len(x) THEN 0 ELSE (MagModSmall(x, p, j + 1) * Base + x[j]) % p
RECURSIVE MagDivSmallFrom(_, _, _, _)
MagDivSmallFrom(x, p, j, rem) ==
  IF j = 0 THEN <<>>
  ELSE LET cur == rem * Base + x[j]
       IN  Append(MagDivSmallFrom(x, p, j - 1, cur % p), cur \div p)
BDivides(p, x) == x.s = 0 \/ MagModSmall(x.d, p, 1) = 0
BDivSmall(x, p) ==
  IF x.s = 0 THEN x ELSE [s |-> x.s, d |-> MagTrim(MagDivSmallFrom(x.d, p, Len(x.d), 0))]
\* the same number with the common factors 2, 3, 5 and 7 of m, n and q
\* cancelled: lowest terms for the denominators decimal data produce
RECURSIVE FinCancel(_, _, _, _)
FinCancel(m, n, q, ps) ==
  IF ps = <<>> THEN Fin(m, n, q)
  ELSE IF BDivides(ps[1], q) /\ BDivides(ps[1], m) /\ BDivides(ps[1], n)
  THEN FinCancel(BDivSmall(m, ps[1]), BDivSmall(n, ps[1]), BDivSmall(q, ps[1]), ps)
  ELSE FinCancel(m, n, q, Tail(ps))
FinNorm(m, n, q) ==
  IF m.s = 0 /\ n.s = 0 THEN Fin(m, n, BI(1))
  ELSE FinCancel(m, n, q, <<Base, 2, 5, 3, 7>>)
NaN == [k |-> "nan", m |-> BZero, n |-> BZero, q |-> BI(1)]
PosInf == [k |-> "pinf", m |-> BZero, n |-> BZero, q |-> BI(1)]
NegInf == [k |-> "ninf", m |-> BZero, n |-> BZero, q |-> BI(1)]
\* the number a / b, for integers a and b > 0
Rat(a, b) == FinNorm(BI(a), BZero, BI(b))
Int2Num(a) == Rat(a, 1)
Zero == Int2Num(0)
One == Int2Num(1)
\* r = 1 / gr, the inverse of the golden ratio
InvGr == Fin(BZero, BI(1), BI(1))

IsFinite(x) == x.k = "fin"
IsNaN(x) == x.k = "nan"
\* -1, 0 or 1 for a number that is not NaN
NSign(x) ==
  IF x.k = "pinf" THEN 1
  ELSE IF x.k = "ninf" THEN -1
  ELSE ZSign(x.m, x.n)
NNeg(x) ==
  IF x.k = "nan" THEN NaN
  ELSE IF x.k = "pinf" THEN NegInf
  ELSE IF x.k = "ninf" THEN PosInf
  ELSE Fin(BNeg(x.m), BNeg(x.n), x.q)
FinAdd(x, y) ==
  IF x.q = y.q THEN Fin(BAdd(x.m, y.m), BAdd(x.n, y.n), x.q)
  ELSE IF x.m.s = 0 /\ x.n.s = 0 THEN y
  ELSE IF y.m.s = 0 /\ y.n.s = 0 THEN x
  ELSE FinNorm(BAdd(BMul(x.m, y.q), BMul(y.m, x.q)),
               BAdd(BMul(x.n, y.q), BMul(y.n, x.q)),
               BMul(x.q, y.q))
NAdd(x, y) ==
  IF x.k = "nan" \/ y.k = "nan" THEN NaN
  ELSE IF x.k = "fin" /\ y.k = "fin" THEN FinAdd(x, y)
  ELSE IF x.k = "fin" THEN y
  ELSE IF y.k = "fin" THEN x
  ELSE IF x.k = y.k THEN x
  ELSE NaN
NSub(x, y) == NAdd(x, NNeg(y))
\* (m1 + n1 r)(m2 + n2 r) = (m1 m2 + nn) + (m1 n2 + n1 m2 - nn) r, nn = n1 n2
FinMulNN(x, y, nn) ==
  FinNorm(BAdd(BMul(x.m, y.m), nn),
          BSub(BAdd(BMul(x.m, y.n), BMul(x.n, y.m)), nn),
          BMul(x.q, y.q))
FinMul(x, y) == FinMulNN(x, y, BMul(x.n, y.n))
\* the infinity of sign sg, NaN for sg = 0
InfOfSign(sg) == IF sg = 0 THEN NaN ELSE IF sg > 0 THEN PosInf ELSE NegInf
NMul(x, y) ==
  IF x.k = "nan" \/ y.k = "nan" THEN NaN
  ELSE IF x.k = "fin" /\ y.k = "fin" THEN FinMul(x, y)
  ELSE InfOfSign(NSign(x) * NSign(y))
\* x / y for finite x and finite y # 0: x times the conjugate of y over its
\* norm m * m - m * n - n * n
FinDivNum(x, y, norm, num) ==
  FinNorm(BMul(num.m, y.q), BMul(num.n, y.q), BMul(x.q, [s |-> 1, d |-> norm.d]))
FinDivNorm(x, y, norm) ==
  FinDivNum(x, y, norm,
            FinMul(Fin(x.m, x.n, BI(1)),
                   Fin(BMul(BSub(y.m, y.n), BI(norm.s)), BMul(BNeg(y.n), BI(norm.s)), BI(1))))
FinDiv(x, y) ==
  IF y.n.s = 0
  THEN FinNorm(BMul(BMul(x.m, y.q), BI(y.m.s)),
               BMul(BMul(x.n, y.q), BI(y.m.s)),
               BMul(x.q, [s |-> 1, d |-> y.m.d]))
  ELSE FinDivNorm(x, y, BSub(BSub(BMul(y.m, y.m), BMul(y.m, y.n)), BMul(y.n, y.n)))
\* x / y for finite x and y, sy the sign of y
FinDivSigned(x, y, sy) == IF sy = 0 THEN InfOfSign(NSign(x)) ELSE FinDiv(x, y)
NDiv(x, y) ==
  IF x.k = "nan" \/ y.k = "nan" THEN NaN
  ELSE IF y.k # "fin"
       THEN (IF x.k = "fin" THEN Zero ELSE NaN)
  ELSE IF x.k # "fin"
       THEN InfOfSign(NSign(x) * (IF NSign(y) < 0 THEN -1 ELSE 1))
  ELSE FinDivSigned(x, y, NSign(y))
\* the comparisons of JavaScript: false as soon as one side is NaN
NGtFin(x, y) == NSign(FinAdd(x, NNeg(y))) > 0
NGT(x, y) ==
  IF x.k = "nan" \/ y.k = "nan" THEN FALSE
  ELSE IF x.k = "fin" /\ y.k = "fin" THEN NGtFin(x, y)
  ELSE IF x.k = y.k THEN FALSE
  ELSE x.k = "pinf" \/ y.k = "ninf"
NLT(x, y) == NGT(y, x)
NGE(x, y) == x.k # "nan" /\ y.k # "nan" /\ ~NGT(y, x)
NLE(x, y) == NGE(y, x)
NEQ(x, y) == NGE(x, y) /\ NGE(y, x)
\* Math.abs and Math.max
NAbs(x) == IF x.k = "nan" THEN NaN ELSE IF NSign(x) < 0 THEN NNeg(x) ELSE x
\* (Unfloored is the second argument alone: a volume that is not floored)
Unfloored(x, y) == y
NMax(x, y) ==
  IF x.k = "nan" \/ y.k = "nan" THEN NaN ELSE IF NGT(y, x) THEN y ELSE x

(***************************************************************************)
(* CSV text.  A numeric field is the decimal n / d its text denotes,       *)
(* followed by a '%' sign when pct holds ("20%").                          *)
(***************************************************************************)
Txt(n, d) == [n |-> n, d |-> d, pct |-> FALSE]
Pct(n) == [n |-> n, d |-> 1, pct |-> TRUE]
\* parseFloat reads the leading decimal and ignores what follows it
parseFloat(t) == Rat(t.n, t.d)
\* text.replace('%', '')
replacePct(t) == [t EXCEPT !.pct = FALSE]

\* `const name = value; rest` is written Const([name \in {value} |-> rest])
Const(binding) == binding[CHOOSE value \in DOMAIN binding : TRUE]

Undefined == [undefined |-> TRUE]
Null == [null |-> TRUE]
\* Array.prototype.find on keys: the index of the first row whose `fields`
\* are those of `key`, or 0
RECURSIVE FindIndex(_, _, _, _)
FindIndex(rows, fields, key, j) ==
  IF j > Len(rows) THEN 0
  ELSE IF \A fld \in fields : rows[j][fld] = key[fld] THEN j
  ELSE FindIndex(rows, fields, key, j + 1)
FindProduct(productData, key) ==
  LET j == FindIndex(productData, {"ProductKey"}, [ProductKey |-> key], 1)
  IN  IF j = 0 THEN Undefined ELSE productData[j]
\* table[key] || 0 on a table of numbers
OrZero(x) ==
  IF x.k = "nan" THEN Zero
  ELSE IF x.k = "fin" /\ NSign(x) = 0 THEN Zero
  ELSE x
LookupOrZero(table, key) == IF key \notin DOMAIN table THEN Zero ELSE OrZero(table[key])

(***************************************************************************)
(* Optimal discount (best-sellers/route.ts, third handler)                 *)
(***************************************************************************)
CARBON_OFFSET_RATE == Rat(1, 4)
BONUS_THRESHOLD == 2000000
BONUS_AMOUNT == 50000
TARGET_SUPPLIER == "1098896101"

\* one pass of the forEach body of calculateMetricsForDiscount for `sale`:
\* the record's projected sales, net profit and emissions at `discount`
SaleAtDiscount(discount, sale, product, totalEmissionsPerUnit) ==
  Const([originalPrice \in {parseFloat(sale.PredictedPrice)} |->
  Const([newPrice \in {NMul(originalPrice, NSub(One, discount))} |->
  Const([pctPriceChange \in {NDiv(NSub(newPrice, originalPrice), originalPrice)} |->
  Const([elasticity \in {parseFloat(product.Elasticity)} |->
  Const([pctVolumeChange \in {NMul(NNeg(elasticity), pctPriceChange)} |->
  Const([originalVolume \in {parseFloat(sale.EstimatedUnitVolume)} |->
  Const([newVolume \in {NMax(Zero, NMul(originalVolume, NAdd(One, pctVolumeChange)))} |->
  Const([newSales \in {NMul(newPrice, newVolume)} |->
  Const([margin \in {NDiv(parseFloat(replacePct(product.Margin)), Int2Num(100))} |->
  Const([newGrossProfit \in {NMul(newSales, margin)} |->
  Const([emissionsPerUnit \in {LookupOrZero(totalEmissionsPerUnit, sale.ProductKey)} |->
  Const([newEmissions \in {NMul(newVolume, emissionsPerUnit)} |->
  Const([offsetCost \in {NMul(newEmissions, CARBON_OFFSET_RATE)} |->
  Const([newNetProfit \in {NSub(newGrossProfit, offsetCost)} |->
    [newPrice |-> newPrice, newVolume |-> newVolume, newSales |-> newSales,
     newGrossProfit |-> newGrossProfit, newEmissions |-> newEmissions,
     offsetCost |-> offsetCost, newNetProfit |-> newNetProfit]])])])])])])])])])])])])])])

\* totalSales += newSales; totalNetProfit += newNetProfit
AddSale(acc, s) ==
  [totalSales |-> NAdd(acc.totalSales, s.newSales),
   totalNetProfit |-> NAdd(acc.totalNetProfit, s.newNetProfit)]
\* the forEach body for the row `sale` and the product found for it
MetricsOfSale(discount, sale, product, totalEmissionsPerUnit, acc) ==
  IF product = Undefined THEN acc
  ELSE AddSale(acc, SaleAtDiscount(discount, sale, product, totalEmissionsPerUnit))
\* the forEach of calculateMetricsForDiscount from row j on, with the running totals
RECURSIVE MetricsLoop(_, _, _, _, _, _)
MetricsLoop(discount, salesData, productData, totalEmissionsPerUnit, j, acc) ==
  IF j > Len(salesData) THEN acc
  ELSE MetricsLoop(discount, salesData, productData, totalEmissionsPerUnit, j + 1,
                   MetricsOfSale(discount, salesData[j],
                                 FindProduct(productData, salesData[j].ProductKey),
                                 totalEmissionsPerUnit, acc))

\* the bonus condition of calculateMetricsForDiscount (step 7)
\* (BonusAppliesFrom is the faulty variant with >=, which the strict comparison excludes)
BonusAppliesFrom(totalSales) == NGE(totalSales, Int2Num(BONUS_THRESHOLD))
BonusApplies(totalSales) == NGT(totalSales, Int2Num(BONUS_THRESHOLD))
ApplyBonus(t) ==
  IF BonusApplies(t.totalSales)
  THEN [totalSales |-> t.totalSales,
        totalNetProfit |-> NAdd(t.totalNetProfit, Int2Num(BONUS_AMOUNT))]
  ELSE t

calculateMetricsForDiscount(discount, salesData, productData, totalEmissionsPerUnit) ==
  ApplyBonus(MetricsLoop(discount, salesData, productData, totalEmissionsPerUnit, 1,
                         [totalSales |-> Zero, totalNetProfit |-> Zero]))

VARIABLES
  pc,           \* where the running call stands: "idle", "call", "search", "returned", "done"
  csv,          \* the tables the handlers read from public/CSVs
  f,            \* goldenSectionSearch: the objective
  a, b, c, d,   \* goldenSectionSearch: bracket and interior points
  fc, fd,       \* goldenSectionSearch: cached objective values
  i,            \* goldenSectionSearch: loop counter
  tolerance, maxIter,
  a0, b0,       \* the bounds the search was called with
  evals,        \* number of evaluations of the objective so far
  bestDiscount, \* the value goldenSectionSearch returned
  resp,         \* the response of the handler
  session,      \* ProtectedLayout: useState<Session | null>
  loading,      \* ProtectedLayout and PromotionsComparison: useState(true)
  location,     \* the route the router was last pushed to
  comparison,   \* PromotionsComparison: the state `data` (the two analyses)
  error,        \* PromotionsComparison: useState<string | null>
  pending       \* the asynchronous work of the mounted component

search == <<f, a, b, c, d, fc, fd, i, tolerance, maxIter, a0, b0, evals, bestDiscount>>
ui == <<session, loading, location, comparison, error, pending>>
vars == <<pc, csv, resp, search, ui>>

\* no component is mounted
UiIdle ==
  /\ session = Null /\ loading = TRUE /\ location = "/"
  /\ comparison = Null /\ error = Null /\ pending = <<>>

(***************************************************************************)
(* goldenSectionSearch (best-sellers/route.ts)                             *)
(***************************************************************************)
DEFAULT_A == Rat(1, 20)
DEFAULT_B == Rat(1, 2)
DEFAULT_TOLERANCE == Rat(1, 10000)
DEFAULT_MAX_ITER == 50

\* x / gr with gr = (Math.sqrt(5) + 1) / 2
DivGr(x) == NMul(x, InvGr)

\* the objectives the search is run on: test objectives in the variable x
\* around the point p, and the objectiveFunction of the optimal-discount handler
TestObjective(fn, x) ==
  CASE fn.kind = "concave" -> NNeg(NMul(NSub(x, fn.p), NSub(x, fn.p)))
    [] fn.kind = "convex" -> NMul(NSub(x, fn.p), NSub(x, fn.p))
    [] fn.kind = "rising" -> NSub(x, fn.p)
    [] fn.kind = "falling" -> NSub(fn.p, x)
    [] OTHER -> Zero

\* the rows of the optimal-discount handler's filters
IsTargetSupplier(p) == p.SupplierKey = TARGET_SUPPLIER
supplierProducts(data) == SelectSeq(data.products, IsTargetSupplier)
relevantSales(data) ==
  LET productKeys == {supplierProducts(data)[j].ProductKey : j \in 1..Len(supplierProducts(data))}
      Keep(sale) == sale.ProductKey \in productKeys /\ sale.TransactionMonth = "7"
  IN  SelectSeq(data.sales, Keep)

\* convertToKgCO2 of the optimal-discount handler: no conversion
convertToKgCO2Optimal(value, units) == value

FindSupplier(supplierData, key) ==
  LET j == FindIndex(supplierData, {"SupplierKey"}, [SupplierKey |-> key], 1)
  IN  IF j = 0 THEN Undefined ELSE supplierData[j]
FindBrand(brandData, key) ==
  LET j == FindIndex(brandData, {"BrandKey"}, [BrandKey |-> key], 1)
  IN  IF j = 0 THEN Undefined ELSE brandData[j]
FindCategory(categoryData, product) ==
  LET j == FindIndex(categoryData, {"ProductCategory_Lvl1", "ProductCategory_Lvl2"},
                     product, 1)
  IN  IF j = 0 THEN Undefined ELSE categoryData[j]

\* totalEmissionsPerUnit of the optimal-discount handler for one product
AddSupplierEmissions(total, supplier) ==
  IF supplier = Undefined THEN total
  ELSE NAdd(total, convertToKgCO2Optimal(
              NMul(parseFloat(supplier.Distance_mi), parseFloat(supplier.Est_Emission_Int)),
              supplier.Units))
AddRowEmissions(total, row) ==
  IF row = Undefined THEN total
  ELSE NAdd(total, convertToKgCO2Optimal(parseFloat(row.Est_Emission_Int), row.Units))
OptimalEmissionsOf(data, product) ==
  AddRowEmissions(
    AddRowEmissions(
      AddSupplierEmissions(Zero, FindSupplier(data.suppliers, product.SupplierKey)),
      FindCategory(data.categories, product)),
    FindBrand(data.brands, product.BrandKey))

\* the table built by supplierProducts.forEach: a later row of a key overwrites
LastIndexOfKey(rows, key) ==
  CHOOSE j \in 1..Len(rows) :
    /\ rows[j].ProductKey = key
    /\ \A k \in (j + 1)..Len(rows) : rows[k].ProductKey # key
OptimalEmissionsPerUnit(data) ==
  LET sp == supplierProducts(data)
  IN  [key \in {sp[j].ProductKey : j \in 1..Len(sp)} |->
         OptimalEmissionsOf(data, sp[LastIndexOfKey(sp, key)])]

objectiveFunction(data, discount) ==
  calculateMetricsForDiscount(discount, relevantSales(data), supplierProducts(data),
                              OptimalEmissionsPerUnit(data)).totalNetProfit

Objective(fn, x) ==
  IF fn.kind = "profit" THEN objectiveFunction(csv, x) ELSE TestObjective(fn, x)

\* lines 578-579 and 593, 599: the interior points of the bracket [lo, hi]
\* (PointCHalf is the faulty variant that bisects the bracket)
PointCHalf(lo, hi) == NSub(hi, NDiv(NSub(hi, lo), Int2Num(2)))
PointC(lo, hi) == NSub(hi, DivGr(NSub(hi, lo)))
PointD(lo, hi) == NAdd(lo, DivGr(NSub(hi, lo)))

\* the exit test of the loop
\* (WithinToleranceNever is the faulty variant without the tolerance exit)
WithinToleranceNever(lo, hi, tol) == FALSE
WithinTolerance(lo, hi, tol) == NLT(NAbs(NSub(hi, lo)), tol)

\* the branch of the loop body
\* (ShrinksRightFlipped and ShrinksRightOrTie are the faulty variants that
\* minimize and that shrink on the right on a tie)
ShrinksRightFlipped(vc, vd) == NLT(vc, vd)
ShrinksRightOrTie(vc, vd) == NGE(vc, vd)
ShrinksRight(vc, vd) == NGT(vc, vd)

\* one pass of the loop body on the locals s = [a, b, c, d, fc, fd]
\* (ShrinkRightStale keeps the cached fc in place of the evaluation at the new c)
ShrinkRightStale(fn, s, nc) ==
  [a |-> s.a, b |-> s.d, c |-> nc, d |-> s.c, fc |-> s.fc, fd |-> s.fc]
ShrinkRight(fn, s, nc) ==
  [a |-> s.a, b |-> s.d, c |-> nc, d |-> s.c, fc |-> Objective(fn, nc), fd |-> s.fc]
ShrinkLeft(fn, s, nd) ==
  [a |-> s.c, b |-> s.b, c |-> s.d, d |-> nd, fc |-> s.fd, fd |-> Objective(fn, nd)]
IterateStep(fn, s) ==
  IF ShrinksRight(s.fc, s.fd)
  THEN ShrinkRight(fn, s, PointC(s.a, s.d))
  ELSE ShrinkLeft(fn, s, PointD(s.c, s.b))

\* lines 577-582
GSStart ==
  /\ pc = "call"
  /\ c' = PointC(a, b)
  /\ d' = PointD(a, b)
  /\ fc' = Objective(f, c')
  /\ fd' = Objective(f, d')
  /\ i' = 0
  /\ evals' = 2
  /\ pc' = "search"
  /\ UNCHANGED <<csv, ui, resp, f, a, b, tolerance, maxIter, a0, b0, bestDiscount>>

\* lines 584-602: one iteration that does not break
GSIterate ==
  /\ pc = "search"
  /\ i < maxIter
  /\ ~WithinTolerance(a, b, tolerance)
  /\ \E s \in {IterateStep(f, [a |-> a, b |-> b, c |-> c, d |-> d, fc |-> fc, fd |-> fd])} :
       /\ a' = s.a /\ b' = s.b /\ c' = s.c /\ d' = s.d /\ fc' = s.fc /\ fd' = s.fd
  /\ i' = i + 1
  /\ evals' = evals + 1
  /\ UNCHANGED <<pc, csv, ui, resp, f, tolerance, maxIter, a0, b0, bestDiscount>>

\* lines 584-586 and 604-606: the loop ends and the midpoint is returned
Midpoint(lo, hi) == NDiv(NAdd(lo, hi), Int2Num(2))
GSReturn ==
  /\ pc = "search"
  /\ ~(i < maxIter) \/ WithinTolerance(a, b, tolerance)
  /\ bestDiscount' = Midpoint(a, b)
  /\ pc' = "returned"
  /\ UNCHANGED <<csv, ui, resp, f, a, b, c, d, fc, fd, i, tolerance, maxIter, a0, b0, evals>>

(***************************************************************************)
(* goldenSectionSearch on test objectives                                  *)
(***************************************************************************)
StarSteps == 4
SmallMaxIter == 2
WideBracket == 10000000

NoData == [sales |-> <<>>, products |-> <<>>, categories |-> <<>>,
           brands |-> <<>>, suppliers |-> <<>>]
NoResp == [route |-> "none"]

Brackets == {<<DEFAULT_A, DEFAULT_B>>, <<Zero, One>>, <<Zero, Int2Num(WideBracket)>>,
             <<DEFAULT_B, DEFAULT_A>>, <<Rat(3, 10), Rat(3, 10)>>}
Tolerances == {DEFAULT_TOLERANCE, Rat(1, 10), Zero}
MaxIters == {DEFAULT_MAX_ITER, 0, SmallMaxIter}
\* the point j / StarSteps of the way from lo to hi
Between(lo, hi, j) == NAdd(lo, NMul(NSub(hi, lo), Rat(j, StarSteps)))
TestObjectives(lo, hi) ==
  {[kind |-> "concave", p |-> Between(lo, hi, j)] : j \in 0..StarSteps}
    \cup {[kind |-> k, p |-> Between(lo, hi, 1)] : k \in {"convex", "rising", "falling", "const"}}

InitSearch ==
  /\ pc = "call"
  /\ UiIdle
  /\ csv = NoData
  /\ resp = NoResp
  /\ \E br \in Brackets :
       /\ a = br[1] /\ b = br[2] /\ a0 = br[1] /\ b0 = br[2]
       /\ f \in TestObjectives(br[1], br[2])
  /\ tolerance \in Tolerances
  /\ maxIter \in MaxIters
  /\ c = Zero /\ d = Zero /\ fc = Zero /\ fd = Zero
  /\ i = 0 /\ evals = 0 /\ bestDiscount = Zero

NextSearch == GSStart \/ GSIterate \/ GSReturn
SpecSearch == InitSearch /\ [][NextSearch]_vars
\* weak fairness of NextSearch, WF_vars(NextSearch), with ENABLED <<NextSearch>>_vars
\* written out: GSStart is enabled when pc = "call", and one of GSIterate and
\* GSReturn when pc = "search"
SearchEnabled == pc \in {"call", "search"}
SpecSearchFair == SpecSearch /\ ([]<>(~SearchEnabled) \/ []<><<NextSearch>>_vars)

(***************************************************************************)
(* The optimal-discount handler (best-sellers/route.ts, third GET)         *)
(***************************************************************************)
\* one pass of the forEach that computes the original metrics
BaselineOfSale(sale, product, totalEmissionsPerUnit) ==
  Const([originalPrice \in {parseFloat(sale.PredictedPrice)} |->
  Const([originalVolume \in {parseFloat(sale.EstimatedUnitVolume)} |->
  Const([margin \in {NDiv(parseFloat(replacePct(product.Margin)), Int2Num(100))} |->
  Const([emissionsPerUnit \in {LookupOrZero(totalEmissionsPerUnit, sale.ProductKey)} |->
  Const([originalSales \in {NMul(originalPrice, originalVolume)} |->
  Const([originalGrossProfit \in {NMul(originalSales, margin)} |->
  Const([originalEmissions \in {NMul(originalVolume, emissionsPerUnit)} |->
  Const([originalOffsetCost \in {NMul(originalEmissions, CARBON_OFFSET_RATE)} |->
    [originalSales |-> originalSales,
     originalNetProfit |-> NSub(originalGrossProfit, originalOffsetCost),
     originalEmissions |-> originalEmissions]])])])])])])])])
AddBaseline(acc, o) ==
  [prevSales |-> NAdd(acc.prevSales, o.originalSales),
   prevProfit |-> NAdd(acc.prevProfit, o.originalNetProfit),
   prevEmissions |-> NAdd(acc.prevEmissions, o.originalEmissions)]
BaselineOfRow(sale, product, totalEmissionsPerUnit, acc) ==
  IF product = Undefined THEN acc
  ELSE AddBaseline(acc, BaselineOfSale(sale, product, totalEmissionsPerUnit))
RECURSIVE BaselineLoop(_, _, _, _, _)
BaselineLoop(sales, productData, totalEmissionsPerUnit, j, acc) ==
  IF j > Len(sales) THEN acc
  ELSE BaselineLoop(sales, productData, totalEmissionsPerUnit, j + 1,
                    BaselineOfRow(sales[j], FindProduct(productData, sales[j].ProductKey),
                                  totalEmissionsPerUnit, acc))

\* one pass of the forEach that computes the new emissions
NewEmissionsOfRow(discount, sale, product, totalEmissionsPerUnit, acc) ==
  IF product = Undefined THEN acc
  ELSE NAdd(acc, SaleAtDiscount(discount, sale, product, totalEmissionsPerUnit).newEmissions)
RECURSIVE NewEmissionsLoop(_, _, _, _, _, _)
NewEmissionsLoop(discount, sales, productData, totalEmissionsPerUnit, j, acc) ==
  IF j > Len(sales) THEN acc
  ELSE NewEmissionsLoop(discount, sales, productData, totalEmissionsPerUnit, j + 1,
                        NewEmissionsOfRow(discount, sales[j],
                                          FindProduct(productData, sales[j].ProductKey),
                                          totalEmissionsPerUnit, acc))

\* the bonus logic of the handler
BonusTriggered(newSales) == NGT(newSales, Int2Num(BONUS_THRESHOLD))
BonusLogic(newSales, newProfit) ==
  Const([bonusTriggered \in {BonusTriggered(newSales)} |->
  Const([bonusAmount \in {IF bonusTriggered THEN Int2Num(BONUS_AMOUNT) ELSE Zero} |->
    [bonusTriggered |-> bonusTriggered,
     newProfitWithBonus |-> NAdd(newProfit, bonusAmount)]])])

\* ((x - base) / base) * 100
PctIncrease(x, base) == NMul(NDiv(NSub(x, base), base), Int2Num(100))

\* the response object of the handler, from the original metrics `prev`, the
\* final metrics `final`, the new emissions and the bonus
OptimalResponseOf(discount, prev, final, newEmissions, bonus) ==
  [route |-> "optimal-discount",
   status |-> 200,
   optimalDiscount |-> discount,
   bonusTriggered |-> bonus.bonusTriggered,
   previousProfit |-> prev.prevProfit,
   newProfitWithBonus |-> bonus.newProfitWithBonus,
   profitPercentageIncrease |-> PctIncrease(bonus.newProfitWithBonus, prev.prevProfit),
   previousRevenue |-> prev.prevSales,
   newRevenue |-> final.totalSales,
   revenuePercentageIncrease |-> PctIncrease(final.totalSales, prev.prevSales),
   previousEmissions |-> prev.prevEmissions,
   newEmissions |-> newEmissions,
   emissionsPercentageIncrease |-> PctIncrease(newEmissions, prev.prevEmissions),
   emissionsPerProfitBefore |-> NDiv(prev.prevEmissions, prev.prevProfit),
   emissionsPerProfitAfter |-> NDiv(newEmissions, bonus.newProfitWithBonus)]
OptimalResponseWith(discount, prev, final, newEmissions) ==
  OptimalResponseOf(discount, prev, final, newEmissions,
                    BonusLogic(final.totalSales, final.totalNetProfit))
OptimalResponse(data, discount) ==
  OptimalResponseWith(
    discount,
    BaselineLoop(relevantSales(data), data.products, OptimalEmissionsPerUnit(data), 1,
                 [prevSales |-> Zero, prevProfit |-> Zero, prevEmissions |-> Zero]),
    calculateMetricsForDiscount(discount, relevantSales(data), supplierProducts(data),
                                OptimalEmissionsPerUnit(data)),
    NewEmissionsLoop(discount, relevantSales(data), data.products,
                     OptimalEmissionsPerUnit(data), 1, Zero))

\* the handler up to the call of goldenSectionSearch(objectiveFunction)
GetOptimalDiscount ==
  /\ pc = "idle"
  /\ f' = [kind |-> "profit", p |-> Zero]
  /\ a' = DEFAULT_A /\ b' = DEFAULT_B
  /\ a0' = DEFAULT_A /\ b0' = DEFAULT_B
  /\ tolerance' = DEFAULT_TOLERANCE
  /\ maxIter' = DEFAULT_MAX_ITER
  /\ pc' = "call"
  /\ resp' = [route |-> "optimal-discount"]
  /\ UNCHANGED <<csv, ui, c, d, fc, fd, i, evals, bestDiscount>>

\* the handler from the return of the search to NextResponse.json(response)
OptimalRespond ==
  /\ pc = "returned"
  /\ resp.route = "optimal-discount"
  /\ resp' = OptimalResponse(csv, bestDiscount)
  /\ pc' = "done"
  /\ UNCHANGED <<csv, ui, search>>

(***************************************************************************)
(* Helpers of the scenario handlers                                        *)
(***************************************************************************)
IsJuly(sale) == sale.TransactionMonth = "7"
\* salesData.filter(sale => sale.TransactionMonth === '7')
julySales(data) == SelectSeq(data.sales, IsJuly)

\* the comparators of the handlers' sorts: the first row goes before the second
HigherSales(x, y) == NGT(parseFloat(x.EstimatedSales), parseFloat(y.EstimatedSales))
LowerEmissions(x, y) == NLT(x.Total_Emission_per_unit, y.Total_Emission_per_unit)
Descending(x, y) == NGT(x, y)
LowerTotalEmissions(x, y) == NLT(x.totalEmissions, y.totalEmissions)
HigherTotalSales(x, y) == NGT(x.totalSales, y.totalSales)
LowerEmissionsPerUnit(x, y) == NLT(x.emissionsPerUnit, y.emissionsPerUnit)
Before(order, x, y) ==
  CASE order = "HigherSales" -> HigherSales(x, y)
    [] order = "LowerEmissions" -> LowerEmissions(x, y)
    [] order = "Descending" -> Descending(x, y)
    [] order = "LowerTotalEmissions" -> LowerTotalEmissions(x, y)
    [] order = "HigherTotalSales" -> HigherTotalSales(x, y)
    [] order = "LowerEmissionsPerUnit" -> LowerEmissionsPerUnit(x, y)
\* Array.prototype.sort, which is stable: `row` goes in front of the first
\* element it is before
RECURSIVE InsertAt(_, _, _, _)
InsertAt(sorted, row, order, j) ==
  IF j > Len(sorted) THEN Append(sorted, row)
  ELSE IF Before(order, row, sorted[j])
  THEN SubSeq(sorted, 1, j - 1) \o <<row>> \o SubSeq(sorted, j, Len(sorted))
  ELSE InsertAt(sorted, row, order, j + 1)
RECURSIVE SortFrom(_, _, _, _)
SortFrom(rows, order, j, sorted) ==
  IF j > Len(rows) THEN sorted
  ELSE SortFrom(rows, order, j + 1, InsertAt(sorted, rows[j], order, 1))
SortBy(rows, order) == SortFrom(rows, order, 1, <<>>)

\* Math.floor(x) and Math.ceil(x) for 0 <= x <= n
FloorUpTo(x, n) == CHOOSE k \in 0..n : NLE(Int2Num(k), x) /\ NLT(x, Int2Num(k + 1))
CeilUpTo(x, n) == CHOOSE k \in 0..n : NLT(Int2Num(k - 1), x) /\ NLE(x, Int2Num(k))

\* the four totals of a scenario
ZeroTotals == [sales |-> Zero, profit |-> Zero, emissions |-> Zero, offsetCost |-> Zero]
\* (new - baseline) / baseline for each total
IncrRatio(new, baseline) == NDiv(NSub(new, baseline), baseline)
RatiosOf(new, baseline) ==
  [sales |-> IncrRatio(new.sales, baseline.sales),
   profit |-> IncrRatio(new.profit, baseline.profit),
   emissions |-> IncrRatio(new.emissions, baseline.emissions),
   offsetCost |-> IncrRatio(new.offsetCost, baseline.offsetCost)]
IncrementalOf(new, baseline) ==
  [sales |-> NSub(new.sales, baseline.sales),
   profit |-> NSub(new.profit, baseline.profit),
   emissions |-> NSub(new.emissions, baseline.emissions),
   offsetCost |-> NSub(new.offsetCost, baseline.offsetCost)]
\* the totals as the response names them
TotalsRecord(t) ==
  [totalSales |-> t.sales, totalProfit |-> t.profit,
   totalEmissions |-> t.emissions, totalOffsetCost |-> t.offsetCost]
\* the product keys of `rows`
ProductKeys(rows) == {rows[j].ProductKey : j \in 1..Len(rows)}

(***************************************************************************)
(* The best-sellers handler (best-sellers/route.ts, first GET)             *)
(***************************************************************************)
BestSellers_DISCOUNT_RATE == Rat(1, 10)
BEST_SELLER_THRESHOLD == Rat(9, 10)

\* totalEmissionsPerUnit[product.ProductKey] of this handler
BestSellersEmissionsOf(data, product) ==
  Const([category \in {FindCategory(data.categories, product)} |->
  Const([brand \in {FindBrand(data.brands, product.BrandKey)} |->
  Const([supplier \in {FindSupplier(data.suppliers, product.SupplierKey)} |->
  Const([categoryEmissions \in {IF category # Undefined
                                THEN parseFloat(category.Est_Emission_Int) ELSE Zero} |->
  Const([brandEmissions \in {IF brand # Undefined
                             THEN parseFloat(brand.Est_Emission_Int) ELSE Zero} |->
  Const([supplierEmissions \in {IF supplier # Undefined
                                THEN NMul(parseFloat(supplier.Distance_mi),
                                          parseFloat(supplier.Est_Emission_Int))
                                ELSE Zero} |->
    NAdd(NAdd(categoryEmissions, brandEmissions), supplierEmissions)])])])])])])
BestSellersEmissionsPerUnit(data) ==
  [key \in ProductKeys(data.products) |->
     BestSellersEmissionsOf(data, data.products[LastIndexOfKey(data.products, key)])]

thresholdIndex(sortedSales) ==
  FloorUpTo(NMul(Int2Num(Len(sortedSales)), BEST_SELLER_THRESHOLD), Len(sortedSales))

\* the body of julySales.forEach for a sale whose product was found
BestSellerSale(sale, product, totalEmissionsPerUnit, salesThreshold) ==
  Const([originalPrice \in {parseFloat(sale.PredictedPrice)} |->
  Const([originalVolume \in {parseFloat(sale.EstimatedUnitVolume)} |->
  Const([margin \in {NDiv(parseFloat(replacePct(product.Margin)), Int2Num(100))} |->
  Const([elasticity \in {parseFloat(product.Elasticity)} |->
  Const([emissionsPerUnit \in {LookupOrZero(totalEmissionsPerUnit, sale.ProductKey)} |->
  Const([isBestSeller \in {NGE(parseFloat(sale.EstimatedSales), salesThreshold)} |->
  Const([baselineSales \in {NMul(originalPrice, originalVolume)} |->
  Const([baselineEmissions \in {NMul(originalVolume, emissionsPerUnit)} |->
  Const([newPrice \in {IF isBestSeller
                       THEN NMul(originalPrice, NSub(One, BestSellers_DISCOUNT_RATE))
                       ELSE originalPrice} |->
  Const([newVolume \in {IF isBestSeller
                        THEN NMul(originalVolume,
                                  NAdd(One, NMul(elasticity, BestSellers_DISCOUNT_RATE)))
                        ELSE originalVolume} |->
  Const([newSales \in {NMul(newPrice, newVolume)} |->
  Const([newEmissions \in {NMul(newVolume, emissionsPerUnit)} |->
    [isBestSeller |-> isBestSeller,
     baseline |-> [sales |-> baselineSales,
                   profit |-> NMul(baselineSales, margin),
                   emissions |-> baselineEmissions,
                   offsetCost |-> NMul(baselineEmissions, CARBON_OFFSET_RATE)],
     new |-> [sales |-> newSales,
              profit |-> NMul(newSales, margin),
              emissions |-> newEmissions,
              offsetCost |-> NMul(newEmissions, CARBON_OFFSET_RATE)]]])])])])])])])])])])])])

AddTotals(t, r) ==
  [sales |-> NAdd(t.sales, r.sales), profit |-> NAdd(t.profit, r.profit),
   emissions |-> NAdd(t.emissions, r.emissions),
   offsetCost |-> NAdd(t.offsetCost, r.offsetCost)]
\* the totals after the record r of row j; `discounted` collects the rows of
\* julySales that got the discounted price
AddRecord(acc, r, j) ==
  [baseline |-> AddTotals(acc.baseline, r.baseline),
   new |-> AddTotals(acc.new, r.new),
   discounted |-> IF r.isBestSeller THEN acc.discounted \cup {j} ELSE acc.discounted]
BestSellerRow(sale, product, totalEmissionsPerUnit, salesThreshold, acc, j) ==
  IF product = Undefined THEN acc
  ELSE AddRecord(acc, BestSellerSale(sale, product, totalEmissionsPerUnit, salesThreshold), j)
RECURSIVE BestSellersLoop(_, _, _, _, _, _)
BestSellersLoop(sales, productData, totalEmissionsPerUnit, salesThreshold, j, acc) ==
  IF j > Len(sales) THEN acc
  ELSE BestSellersLoop(sales, productData, totalEmissionsPerUnit, salesThreshold, j + 1,
                       BestSellerRow(sales[j], FindProduct(productData, sales[j].ProductKey),
                                     totalEmissionsPerUnit, salesThreshold, acc, j))

\* the response object; `discounted` and `count` are not part of the body: the
\* rows of julySales that were discounted and the number of rows of julySales
BestSellersBody(t, salesThreshold, count) ==
  [route |-> "best-sellers", status |-> 200,
   baseline |-> TotalsRecord(t.baseline), new |-> TotalsRecord(t.new),
   incremental |-> IncrementalOf(t.new, t.baseline),
   ratios |-> RatiosOf(t.new, t.baseline),
   discountRate |-> BestSellers_DISCOUNT_RATE,
   bestSellerThreshold |-> salesThreshold,
   discounted |-> t.discounted, count |-> count]
BestSellersWithThreshold(data, salesThreshold) ==
  BestSellersBody(
    BestSellersLoop(julySales(data), data.products, BestSellersEmissionsPerUnit(data),
                    salesThreshold, 1,
                    [baseline |-> ZeroTotals, new |-> ZeroTotals, discounted |-> {}]),
    salesThreshold, Len(julySales(data)))
\* the answer of the catch block
ErrorResponse(route, message) == [route |-> route, status |-> 500, error |-> message]
\* sortedSales[thresholdIndex] is undefined for an empty julySales, and reading
\* its EstimatedSales throws a TypeError into the catch block
BestSellersSorted(data, sortedSales) ==
  IF thresholdIndex(sortedSales) + 1 > Len(sortedSales)
  THEN ErrorResponse("best-sellers", "Failed to process best-sellers analysis")
  ELSE BestSellersWithThreshold(
         data, parseFloat(sortedSales[thresholdIndex(sortedSales) + 1].EstimatedSales))
BestSellersResponse(data) == BestSellersSorted(data, SortBy(julySales(data), "HigherSales"))

GetBestSellers ==
  /\ pc = "idle"
  /\ resp' = BestSellersResponse(csv)
  /\ pc' = "done"
  /\ UNCHANGED <<csv, ui, search>>

(***************************************************************************)
(* The low-emissions handler (low-emissions/route.ts)                      *)
(***************************************************************************)
LowEmissions_DISCOUNT_RATE == Rat(1, 5)
TOP_N_PRODUCTS == 10

\* convertToKgCO2 of this handler; toLowerCase is kept by the lower-case text
\* of the Units column
convertToKgCO2(value, units) ==
  IF units = "g co2" \/ units = "g CO2" THEN NDiv(value, Int2Num(1000)) ELSE value

\* the merged record of a sale whose product was found
MergedRecord(data, sale, product) ==
  Const([category \in {FindCategory(data.categories, product)} |->
  Const([brand \in {FindBrand(data.brands, product.BrandKey)} |->
  Const([supplier \in {FindSupplier(data.suppliers, product.SupplierKey)} |->
  Const([categoryEmissions \in {IF category # Undefined
                                THEN convertToKgCO2(parseFloat(category.Est_Emission_Int),
                                                    category.Units)
                                ELSE Zero} |->
  Const([brandEmissions \in {IF brand # Undefined
                             THEN parseFloat(brand.Est_Emission_Int) ELSE Zero} |->
  Const([supplierEmissions \in {IF supplier # Undefined
                                THEN NMul(parseFloat(supplier.Distance_mi),
                                          parseFloat(supplier.Est_Emission_Int))
                                ELSE Zero} |->
  Const([totalEmissionPerUnit \in {NAdd(NAdd(categoryEmissions, brandEmissions),
                                        supplierEmissions)} |->
  Const([EstimatedUnitVolume \in {parseFloat(sale.EstimatedUnitVolume)} |->
  Const([PredictedPrice \in {parseFloat(sale.PredictedPrice)} |->
  Const([Margin \in {NDiv(parseFloat(replacePct(product.Margin)), Int2Num(100))} |->
  Const([Elasticity \in {parseFloat(product.Elasticity)} |->
  Const([NewPrice \in {NMul(PredictedPrice, NSub(One, LowEmissions_DISCOUNT_RATE))} |->
  Const([NewVolume \in {NMul(EstimatedUnitVolume,
                             NAdd(One, NMul(Elasticity, LowEmissions_DISCOUNT_RATE)))} |->
  Const([BaselineSales \in {NMul(EstimatedUnitVolume, PredictedPrice)} |->
  Const([NewSales \in {NMul(NewVolume, NewPrice)} |->
  Const([BaselineEmissions \in {NMul(EstimatedUnitVolume, totalEmissionPerUnit)} |->
  Const([NewEmissions \in {NMul(NewVolume, totalEmissionPerUnit)} |->
    [ProductKey |-> sale.ProductKey,
     Total_Emission_per_unit |-> totalEmissionPerUnit,
     baseline |-> [sales |-> BaselineSales,
                   profit |-> NMul(BaselineSales, Margin),
                   emissions |-> BaselineEmissions,
                   offsetCost |-> NMul(BaselineEmissions, CARBON_OFFSET_RATE)],
     new |-> [sales |-> NewSales,
              profit |-> NMul(NewSales, Margin),
              emissions |-> NewEmissions,
              offsetCost |-> NMul(NewEmissions, CARBON_OFFSET_RATE)]]])])])])])])])])])])])])])])])])])
MergedRow(data, sale, product, merged) ==
  IF product = Undefined THEN merged ELSE Append(merged, MergedRecord(data, sale, product))
RECURSIVE MergedLoop(_, _, _, _)
MergedLoop(data, sales, j, merged) ==
  IF j > Len(sales) THEN merged
  ELSE MergedLoop(data, sales, j + 1,
                  MergedRow(data, sales[j], FindProduct(data.products, sales[j].ProductKey),
                            merged))
mergedData(data) == MergedLoop(data, julySales(data), 1, <<>>)

\* rows.slice(0, n)
SliceTo(rows, n) == SubSeq(rows, 1, IF Len(rows) < n THEN Len(rows) ELSE n)
\* the totals of selectedProducts (the reduce calls)
RECURSIVE SumRecords(_, _, _)
SumRecords(records, j, acc) ==
  IF j > Len(records) THEN acc
  ELSE SumRecords(records, j + 1,
                  [baseline |-> AddTotals(acc.baseline, records[j].baseline),
                   new |-> AddTotals(acc.new, records[j].new)])
LowEmissionsBody(t, selectedProducts) ==
  [route |-> "low-emissions", status |-> 200,
   baseline |-> TotalsRecord(t.baseline), new |-> TotalsRecord(t.new),
   incremental |-> IncrementalOf(t.new, t.baseline),
   ratios |-> RatiosOf(t.new, t.baseline),
   discountRate |-> LowEmissions_DISCOUNT_RATE,
   count |-> Len(selectedProducts)]
LowEmissionsSelected(selectedProducts) ==
  LowEmissionsBody(SumRecords(selectedProducts, 1,
                              [baseline |-> ZeroTotals, new |-> ZeroTotals]),
                   selectedProducts)
LowEmissionsResponse(data) ==
  LowEmissionsSelected(SliceTo(SortBy(mergedData(data), "LowerEmissions"), TOP_N_PRODUCTS))

GetLowEmissions ==
  /\ pc = "idle"
  /\ resp' = LowEmissionsResponse(csv)
  /\ pc' = "done"
  /\ UNCHANGED <<csv, ui, search>>

(***************************************************************************)
(* The best-sellers analysis handler (best-sellers-analysis/route.ts,      *)
(* second GET)                                                             *)
(***************************************************************************)
Analysis_DISCOUNT_RATE == Rat(1, 10)
discountPercent == Rat(1, 10)
offsetCostPerKg == Rat(1, 10)
TOP_FRACTION == Rat(1, 10)

\* julySales.map(sale => parseFloat(sale.EstimatedSales))
RECURSIVE SalesValues(_, _)
SalesValues(sales, j) ==
  IF j > Len(sales) THEN <<>>
  ELSE <<parseFloat(sales[j].EstimatedSales)>> \o SalesValues(sales, j + 1)
\* sortedSales[Math.floor(sortedSales.length * 0.1)]; for an empty array it is
\* undefined, and every comparison with undefined is false, as with NaN
AnalysisThresholdAt(sortedSales, index) ==
  IF index + 1 > Len(sortedSales) THEN NaN ELSE sortedSales[index + 1]
AnalysisSalesThreshold(sortedSales) ==
  AnalysisThresholdAt(sortedSales,
                      FloorUpTo(NMul(Int2Num(Len(sortedSales)), TOP_FRACTION),
                                Len(sortedSales)))

\* the reduce that gives baselineTotalSales
RECURSIVE BaselineTotalSales(_, _, _, _)
BaselineTotalSales(sales, products, j, acc) ==
  IF j > Len(sales) THEN acc
  ELSE BaselineTotalSales(sales, products, j + 1,
         IF FindProduct(products, sales[j].ProductKey) = Undefined THEN acc
         ELSE NAdd(acc, parseFloat(sales[j].EstimatedSales)))

\* newPrice * newVolume of a best seller
AnalysisDiscountedSales(sale, product) ==
  NMul(NMul(parseFloat(sale.PredictedPrice), NSub(One, Analysis_DISCOUNT_RATE)),
       NMul(parseFloat(sale.EstimatedUnitVolume),
            NAdd(One, NMul(parseFloat(product.Elasticity), Analysis_DISCOUNT_RATE))))
\* one step of the reduce that gives newTotalSales; `discounted` collects the
\* rows of julySales that are best sellers
NewTotalSalesStep(sale, product, salesThreshold, acc, j) ==
  IF product = Undefined THEN acc
  ELSE IF ~NGE(parseFloat(sale.EstimatedSales), salesThreshold)
  THEN [acc EXCEPT !.total = NAdd(acc.total, parseFloat(sale.EstimatedSales))]
  ELSE [total |-> NAdd(acc.total, AnalysisDiscountedSales(sale, product)),
        discounted |-> acc.discounted \cup {j}]
RECURSIVE NewTotalSales(_, _, _, _, _)
NewTotalSales(sales, products, salesThreshold, j, acc) ==
  IF j > Len(sales) THEN acc
  ELSE NewTotalSales(sales, products, salesThreshold, j + 1,
         NewTotalSalesStep(sales[j], FindProduct(products, sales[j].ProductKey),
                           salesThreshold, acc, j))

\* emissionsPerUnit of a product: 0, then += category, brand, distance * intensity
AnalysisEmissionsPerUnit(data, product) == BestSellersEmissionsOf(data, product)
\* the body of the two julySales.forEach loops for a record whose product was
\* found; margin is parseFloat(product.Margin), the percent number itself
AnalysisRecord(data, record, product) ==
  Const([unitVolume \in {parseFloat(record.EstimatedUnitVolume)} |->
  Const([unitPrice \in {parseFloat(record.PredictedPrice)} |->
  Const([margin \in {parseFloat(product.Margin)} |->
  Const([elasticity \in {parseFloat(product.Elasticity)} |->
  Const([emissionsPerUnit \in {AnalysisEmissionsPerUnit(data, product)} |->
  Const([baselineUnitRevenue \in {NMul(unitPrice, unitVolume)} |->
  Const([newVolume \in {NMul(unitVolume, NAdd(One, NMul(elasticity, discountPercent)))} |->
  Const([newUnitRevenue \in {NMul(NMul(unitPrice, NSub(One, discountPercent)),
                                  newVolume)} |->
    [baseline |-> [revenue |-> baselineUnitRevenue,
                   profit |-> NMul(baselineUnitRevenue, margin),
                   emissions |-> NMul(emissionsPerUnit, unitVolume)],
     new |-> [revenue |-> newUnitRevenue,
              profit |-> NMul(newUnitRevenue, margin),
              emissions |-> NMul(emissionsPerUnit, newVolume)]]])])])])])])])])
AddAnalysis(t, r) ==
  [revenue |-> NAdd(t.revenue, r.revenue), profit |-> NAdd(t.profit, r.profit),
   emissions |-> NAdd(t.emissions, r.emissions)]
AnalysisRow(data, record, product, acc) ==
  IF product = Undefined THEN acc
  ELSE Const([r \in {AnalysisRecord(data, record, product)} |->
         [baseline |-> AddAnalysis(acc.baseline, r.baseline),
          new |-> AddAnalysis(acc.new, r.new)]])
RECURSIVE AnalysisLoop(_, _, _, _)
AnalysisLoop(data, sales, j, acc) ==
  IF j > Len(sales) THEN acc
  ELSE AnalysisLoop(data, sales, j + 1,
         AnalysisRow(data, sales[j], FindProduct(data.products, sales[j].ProductKey), acc))

\* ((new - baseline) / baseline) * 100
PctChange(new, baseline) == NMul(NDiv(NSub(new, baseline), baseline), Int2Num(100))
\* the response object; `discounted` and `count` are not part of the body
AnalysisBody(t, baselineTotalSales, newTotal, count) ==
  [route |-> "best-sellers-analysis", status |-> 200,
   emissionsAndOffset |->
     [baselineTotalEmissions |-> t.baseline.emissions,
      newTotalEmissions |-> t.new.emissions,
      incrementalEmissions |-> NSub(t.new.emissions, t.baseline.emissions),
      baselineOffsetCost |-> NMul(t.baseline.emissions, offsetCostPerKg),
      newOffsetCost |-> NMul(t.new.emissions, offsetCostPerKg),
      incrementalOffsetCost |-> NSub(NMul(t.new.emissions, offsetCostPerKg),
                                     NMul(t.baseline.emissions, offsetCostPerKg))],
   sales |-> [baselineTotalSales |-> baselineTotalSales,
              newTotalSales |-> newTotal.total,
              baselineRevenue |-> t.baseline.revenue,
              newRevenue |-> t.new.revenue,
              revenueChange |-> PctChange(t.new.revenue, t.baseline.revenue)],
   profit |-> [baselineTotalProfit |-> t.baseline.profit,
               newTotalProfit |-> t.new.profit,
               profitChange |-> PctChange(t.new.profit, t.baseline.profit)],
   discounted |-> newTotal.discounted, count |-> count]
ZeroAnalysis == [revenue |-> Zero, profit |-> Zero, emissions |-> Zero]
AnalysisOfJuly(data, sales) ==
  AnalysisBody(
    AnalysisLoop(data, sales, 1, [baseline |-> ZeroAnalysis, new |-> ZeroAnalysis]),
    BaselineTotalSales(sales, data.products, 1, Zero),
    NewTotalSales(sales, data.products,
                  AnalysisSalesThreshold(SortBy(SalesValues(sales, 1), "Descending")),
                  1, [total |-> Zero, discounted |-> {}]),
    Len(sales))
AnalysisResponse(data) == AnalysisOfJuly(data, julySales(data))

GetBestSellersAnalysis ==
  /\ pc = "idle"
  /\ resp' = AnalysisResponse(csv)
  /\ pc' = "done"
  /\ UNCHANGED <<csv, ui, search>>

(***************************************************************************)
(* The emissions handler (unnamed/part_006, first GET)                     *)
(***************************************************************************)
Emissions_discountPercent == Rat(1, 5)
LOWEST_N == 10
\* the exponents Math.pow is modelled for
MaxExponent == 3

\* Number(text): NaN when anything but a decimal is in the text
Number(t) == IF t.pct THEN NaN ELSE Rat(t.n, t.d)
NumberOrZero(t) == OrZero(Number(t))
\* parseInt(record.TransactionMonth) of the month texts of the forecast
parseInt(text) == CASE text = "7" -> 7 [] text = "6" -> 6 [] OTHER -> -1
\* units.toLowerCase().includes('g'): the unit texts of the tables with a 'g'
UnitsWithG == {"kg CO2", "g CO2", "g co2"}
Emissions_convertToKgCO2(value, units) ==
  IF units \in UnitsWithG THEN NDiv(value, Int2Num(1000)) ELSE value
\* Math.pow(base, e) for an integral exponent e
RECURSIVE PowNat(_, _)
PowNat(base, k) == IF k = 0 THEN One ELSE NMul(base, PowNat(base, k - 1))
PowInt(base, k) == IF k < 0 THEN NDiv(One, PowNat(base, -k)) ELSE PowNat(base, k)
pow(base, e) ==
  PowInt(base, CHOOSE k \in (-MaxExponent)..MaxExponent : NEQ(e, Int2Num(k)))

\* acc[productKey] += the volume and the sales of the record
AddToEntry(acc, j, record) ==
  [acc EXCEPT ![j].totalVolume = NAdd(@, NumberOrZero(record.EstimatedUnitVolume)),
              ![j].totalSales = NAdd(@, NumberOrZero(record.EstimatedSales))]
SalesByProductStep(acc, record, j) ==
  IF j = 0
  THEN AddToEntry(Append(acc, [productKey |-> record.ProductKey,
                               totalVolume |-> Zero, totalSales |-> Zero]),
                  Len(acc) + 1, record)
  ELSE AddToEntry(acc, j, record)
\* the reduce that gives salesByProduct, as its entries in insertion order
RECURSIVE SalesByProduct(_, _, _)
SalesByProduct(records, j, acc) ==
  IF j > Len(records) THEN acc
  ELSE SalesByProduct(records, j + 1,
         IF parseInt(records[j].TransactionMonth) # 7 THEN acc
         ELSE SalesByProductStep(acc, records[j],
                                 FindIndex(acc, {"productKey"},
                                           [productKey |-> records[j].ProductKey], 1)))
RECURSIVE TotalSalesOf(_, _, _)
TotalSalesOf(entries, j, acc) ==
  IF j > Len(entries) THEN acc
  ELSE TotalSalesOf(entries, j + 1, NAdd(acc, entries[j].totalSales))

\* the product of the map callback once its product and its supplier are found
ProcessedProduct(data, sales, productInfo, supplierInfo) ==
  Const([categoryInfo \in {FindCategory(data.categories, productInfo)} |->
  Const([brandInfo \in {FindBrand(data.brands, productInfo.BrandKey)} |->
  Const([supplierEmissions \in
           {NMul(NMul(Emissions_convertToKgCO2(NumberOrZero(supplierInfo.Est_Emission_Int),
                                               supplierInfo.Units),
                      NumberOrZero(supplierInfo.Distance_mi)),
                 sales.totalVolume)} |->
  Const([categoryEmissions \in
           {IF categoryInfo = Undefined THEN Zero
            ELSE NMul(Emissions_convertToKgCO2(NumberOrZero(categoryInfo.Est_Emission_Int),
                                               categoryInfo.Units),
                      sales.totalVolume)} |->
  Const([brandEmissions \in
           {IF brandInfo = Undefined THEN Zero
            ELSE NMul(Emissions_convertToKgCO2(NumberOrZero(brandInfo.Est_Emission_Int),
                                               brandInfo.Units),
                      sales.totalVolume)} |->
  Const([elasticity \in {NumberOrZero(productInfo.Elasticity)} |->
  Const([volumeUplift \in {pow(NSub(One, Emissions_discountPercent), NNeg(elasticity))} |->
  Const([baselineSales \in {sales.totalSales} |->
  Const([projectedSales \in
           {NMul(NMul(NMul(sales.totalVolume, volumeUplift),
                      NDiv(sales.totalSales, sales.totalVolume)),
                 NSub(One, Emissions_discountPercent))} |->
    [productKey |-> sales.productKey,
     baselineSales |-> baselineSales,
     projectedSales |-> projectedSales,
     volumeUplift |-> volumeUplift,
     percentageVolumeIncrease |-> NMul(NSub(volumeUplift, One), Int2Num(100)),
     percentageRevenueChange |-> PctChange(projectedSales, baselineSales),
     marginPercent |-> NDiv(Number(replacePct(productInfo.Margin)), Int2Num(100)),
     totalEmissions |-> NAdd(NAdd(supplierEmissions, categoryEmissions), brandEmissions),
     supplierEmissions |-> supplierEmissions,
     categoryEmissions |-> categoryEmissions,
     brandEmissions |-> brandEmissions]])])])])])])])])])
ProcessWithInfo(data, sales, productInfo) ==
  IF productInfo = Undefined THEN Null
  ELSE Const([supplierInfo \in {FindSupplier(data.suppliers, productInfo.SupplierKey)} |->
         IF supplierInfo = Undefined THEN Null
         ELSE ProcessedProduct(data, sales, productInfo, supplierInfo)])
\* allProducts.map(...).filter(p => p !== null)
RECURSIVE productsWithEmissions(_, _, _)
productsWithEmissions(data, entries, j) ==
  IF j > Len(entries) THEN <<>>
  ELSE Const([p \in {ProcessWithInfo(data, entries[j],
                                     FindProduct(data.products, entries[j].productKey))} |->
         (IF p = Null THEN <<>> ELSE <<p>>)
           \o productsWithEmissions(data, entries, j + 1)])

RECURSIVE SumField(_, _, _, _)
SumField(rows, fld, j, acc) ==
  IF j > Len(rows) THEN acc ELSE SumField(rows, fld, j + 1, NAdd(acc, rows[j][fld]))
\* the totals of the response from totalCompanyRevenue, promotedProductsBaseline,
\* promotedProductsProjected and newCompanyRevenue
EmissionsTotals(totalCompanyRevenue, promotedBaseline, promotedProjected, newCompanyRevenue) ==
  [companyBaselineRevenue |-> totalCompanyRevenue,
   companyProjectedRevenue |-> newCompanyRevenue,
   companyRevenueChange |-> PctChange(newCompanyRevenue, totalCompanyRevenue),
   promotedProductsBaselineRevenue |-> promotedBaseline,
   promotedProductsProjectedRevenue |-> promotedProjected,
   promotedProductsRevenueChange |->
     PctChange(promotedProjected, promotedBaseline),
   promotedProductsShareOfRevenue |->
     NMul(NDiv(promotedBaseline, totalCompanyRevenue), Int2Num(100))]
EmissionsSums(processedProducts, totalCompanyRevenue, promotedBaseline, promotedProjected) ==
  [route |-> "emissions", status |-> 200,
   products |-> processedProducts,
   totals |-> EmissionsTotals(totalCompanyRevenue, promotedBaseline,
                              promotedProjected,
                              NAdd(NSub(totalCompanyRevenue, promotedBaseline),
                                   promotedProjected)),
   count |-> Len(processedProducts)]
\* throws 'No products could be processed' when nothing was processed
EmissionsOfProcessed(processedProducts, totalCompanyRevenue) ==
  IF Len(processedProducts) = 0
  THEN ErrorResponse("emissions", "Failed to process CSV data")
  ELSE EmissionsSums(processedProducts, totalCompanyRevenue,
                     SumField(processedProducts, "baselineSales", 1, Zero),
                     SumField(processedProducts, "projectedSales", 1, Zero))
\* throws 'No July sales data found' when salesByProduct has no key
EmissionsOfSales(data, allProducts) ==
  IF Len(allProducts) = 0
  THEN ErrorResponse("emissions", "Failed to process CSV data")
  ELSE EmissionsOfProcessed(
         SliceTo(SortBy(productsWithEmissions(data, allProducts, 1), "LowerTotalEmissions"),
                 LOWEST_N),
         TotalSalesOf(allProducts, 1, Zero))
EmissionsResponse(data) == EmissionsOfSales(data, SalesByProduct(data.sales, 1, <<>>))

GetEmissions ==
  /\ pc = "idle"
  /\ resp' = EmissionsResponse(csv)
  /\ pc' = "done"
  /\ UNCHANGED <<csv, ui, search>>

(***************************************************************************)
(* The best-sellers data handler (unnamed/part_006, second GET)            *)
(***************************************************************************)
DISCOUNT_PERCENTAGE == Rat(1, 10)
PRICE_ELASTICITY == Int2Num(2)

\* acc[record.ProductKey] += parseFloat of the volume and of the sales
TopSalesStep(acc, record, j) ==
  IF j = 0
  THEN Append(acc, [productKey |-> record.ProductKey,
                    totalVolume |-> NAdd(Zero, parseFloat(record.EstimatedUnitVolume)),
                    totalSales |-> NAdd(Zero, parseFloat(record.EstimatedSales))])
  ELSE [acc EXCEPT ![j].totalVolume = NAdd(@, parseFloat(record.EstimatedUnitVolume)),
                   ![j].totalSales = NAdd(@, parseFloat(record.EstimatedSales))]
\* the reduce over the July records, as Object.entries gives it
RECURSIVE TopSalesByProduct(_, _, _)
TopSalesByProduct(records, j, acc) ==
  IF j > Len(records) THEN acc
  ELSE TopSalesByProduct(records, j + 1,
         IF parseInt(records[j].TransactionMonth) # 7 THEN acc
         ELSE TopSalesStep(acc, records[j],
                           FindIndex(acc, {"productKey"},
                                     [productKey |-> records[j].ProductKey], 1)))
\* the callback of selectedProducts.map
TopProduct(entry, productInfo, index) ==
  Const([volumeUplift \in {NMul(entry.totalVolume,
                                NMul(DISCOUNT_PERCENTAGE, PRICE_ELASTICITY))} |->
  Const([projectedSales \in
           {NMul(NMul(entry.totalSales, NSub(One, DISCOUNT_PERCENTAGE)),
                 NAdd(One, NMul(DISCOUNT_PERCENTAGE, PRICE_ELASTICITY)))} |->
    [productKey |-> entry.productKey,
     rank |-> index,
     baselineSales |-> entry.totalSales,
     projectedSales |-> projectedSales,
     volumeUplift |-> volumeUplift,
     percentageVolumeIncrease |-> NMul(NDiv(volumeUplift, entry.totalVolume), Int2Num(100)),
     percentageRevenueChange |-> PctChange(projectedSales, entry.totalSales),
     marginPercent |-> IF productInfo # Undefined THEN parseFloat(productInfo.Margin)
                       ELSE Rat(1, 5)]])])
RECURSIVE TopProducts(_, _, _)
TopProducts(data, selectedProducts, j) ==
  IF j > Len(selectedProducts) THEN <<>>
  ELSE <<TopProduct(selectedProducts[j],
                    FindProduct(data.products, selectedProducts[j].productKey), j)>>
       \o TopProducts(data, selectedProducts, j + 1)
\* the response; `count` is not part of the body: the number of products sold
TopProductsBody(processedProducts, companyBaselineRevenue, promotedBaseline, promotedProjected, count) ==
  [route |-> "best-sellers-data", status |-> 200,
   products |-> processedProducts,
   totals |-> EmissionsTotals(companyBaselineRevenue, promotedBaseline,
                              promotedProjected,
                              NAdd(NSub(companyBaselineRevenue, promotedBaseline),
                                   promotedProjected)),
   count |-> count]
TopProductsOf(processedProducts, sortedProducts) ==
  TopProductsBody(processedProducts,
                  SumField(sortedProducts, "totalSales", 1, Zero),
                  SumField(processedProducts, "baselineSales", 1, Zero),
                  SumField(processedProducts, "projectedSales", 1, Zero),
                  Len(sortedProducts))
TopProductsSorted(data, sortedProducts) ==
  TopProductsOf(
    TopProducts(data,
                SliceTo(sortedProducts,
                        CeilUpTo(NMul(Int2Num(Len(sortedProducts)), Rat(1, 10)),
                                 Len(sortedProducts))),
                1),
    sortedProducts)
BestSellersDataResponse(data) ==
  TopProductsSorted(data, SortBy(TopSalesByProduct(data.sales, 1, <<>>), "HigherTotalSales"))

GetBestSellersData ==
  /\ pc = "idle"
  /\ resp' = BestSellersDataResponse(csv)
  /\ pc' = "done"
  /\ UNCHANGED <<csv, ui, search>>

(***************************************************************************)
(* processProductData (best-sellers/route.ts)                              *)
(***************************************************************************)
CARBON_OFFSET_COST_PER_KG == Rat(1, 4)
DISCOUNT_PERCENT == Rat(1, 5)
PROMOTION_PRODUCTS_COUNT == 10

\* salesData.reduce: every row of salesData is summed under its product key
RECURSIVE GroupSales(_, _, _)
GroupSales(salesData, j, acc) ==
  IF j > Len(salesData) THEN acc
  ELSE GroupSales(salesData, j + 1,
         SalesByProductStep(acc, salesData[j],
                            FindIndex(acc, {"productKey"},
                                      [productKey |-> salesData[j].ProductKey], 1)))
\* rows.find(...)?.Est_Emission_Int || 0, Est_Emission_Int being a number
EmissionOrZero(rows, j) == IF j = 0 THEN Zero ELSE OrZero(parseFloat(rows[j].Est_Emission_Int))
\* categoryEmissions.find(c => c.ProductCategory_Lvl1 === key ||
\*                             c.ProductCategory_Lvl2 === key)
RECURSIVE FindCategoryOfKey(_, _, _)
FindCategoryOfKey(rows, key, j) ==
  IF j > Len(rows) THEN 0
  ELSE IF rows[j].ProductCategory_Lvl1 = key \/ rows[j].ProductCategory_Lvl2 = key THEN j
  ELSE FindCategoryOfKey(rows, key, j + 1)
\* emissionsPerUnit[product.ProductKey]: every table is searched for the
\* product key itself
ProcessEmissionsOf(data, key) ==
  NAdd(NAdd(EmissionOrZero(data.brands,
                           FindIndex(data.brands, {"BrandKey"}, [BrandKey |-> key], 1)),
            EmissionOrZero(data.suppliers,
                           FindIndex(data.suppliers, {"SupplierKey"},
                                     [SupplierKey |-> key], 1))),
       EmissionOrZero(data.categories, FindCategoryOfKey(data.categories, key, 1)))
\* the callback of Object.entries(salesByProduct).map
ProcessEntry(sales, productInfo, emissionsRate) ==
  IF productInfo = Undefined \/ OrZero(emissionsRate) = Zero THEN Null
  ELSE [productKey |-> sales.productKey,
        emissions |-> emissionsRate,
        baselineSales |-> sales.totalSales,
        baselineVolume |-> sales.totalVolume,
        averagePrice |-> NDiv(sales.totalSales, sales.totalVolume),
        elasticity |-> NumberOrZero(productInfo.Elasticity),
        marginPercent |-> NDiv(Number(replacePct(productInfo.Margin)), Int2Num(100)),
        emissionsPerUnit |-> emissionsRate]
RECURSIVE ProcessEntries(_, _, _)
ProcessEntries(data, entries, j) ==
  IF j > Len(entries) THEN <<>>
  ELSE Const([p \in {ProcessEntry(entries[j],
                                  FindProduct(data.products, entries[j].productKey),
                                  ProcessEmissionsOf(data, entries[j].productKey))} |->
         (IF p = Null THEN <<>> ELSE <<p>>) \o ProcessEntries(data, entries, j + 1)])
\* the callback of allProducts.slice(0, PROMOTION_PRODUCTS_COUNT).map
PromotedProduct(product) ==
  Const([volumeUplift \in {pow(NSub(One, DISCOUNT_PERCENT), NNeg(product.elasticity))} |->
  Const([projectedVolume \in {NMul(product.baselineVolume, volumeUplift)} |->
  Const([projectedRevenue \in
           {NMul(projectedVolume,
                 NMul(product.averagePrice, NSub(One, DISCOUNT_PERCENT)))} |->
    [productKey |-> product.productKey,
     emissions |-> product.emissions,
     baselineSales |-> product.baselineSales,
     projectedSales |-> projectedRevenue,
     baselineEmissions |-> NMul(product.baselineVolume, product.emissions),
     projectedEmissions |-> NMul(projectedVolume, product.emissions),
     volumeUplift |-> volumeUplift,
     percentageVolumeIncrease |-> NMul(NSub(volumeUplift, One), Int2Num(100)),
     percentageRevenueChange |-> PctChange(projectedRevenue, product.baselineSales),
     marginPercent |-> product.marginPercent,
     emissionsPerUnit |-> product.emissionsPerUnit]])])])
RECURSIVE PromotedProducts(_, _)
PromotedProducts(selected, j) ==
  IF j > Len(selected) THEN <<>>
  ELSE <<PromotedProduct(selected[j])>> \o PromotedProducts(selected, j + 1)
\* x || y on numbers
OrElse(x, y) == IF OrZero(x) = Zero THEN y ELSE x
\* the two reduce calls over allProducts that give the projected totals
ProjectedStep(acc, curr, promoted, j) ==
  IF j = 0
  THEN [sales |-> NAdd(acc.sales, curr.baselineSales),
        emissions |-> NAdd(acc.emissions, NMul(curr.baselineVolume, curr.emissions))]
  ELSE [sales |-> NAdd(acc.sales, OrElse(promoted[j].projectedSales, curr.baselineSales)),
        emissions |-> NAdd(acc.emissions, promoted[j].projectedEmissions)]
RECURSIVE ProjectedLoop(_, _, _, _)
ProjectedLoop(allProducts, promoted, j, acc) ==
  IF j > Len(allProducts) THEN acc
  ELSE ProjectedLoop(allProducts, promoted, j + 1,
         ProjectedStep(acc, allProducts[j], promoted,
                       FindIndex(promoted, {"productKey"}, allProducts[j], 1)))
\* the result; `route` is not part of it
ProcessResult(allProducts, promoted, baseline, projected) ==
  [route |-> "processProductData",
   products |-> promoted,
   companyTotals |->
     [totalBaselineSales |-> baseline.sales,
      totalProjectedSales |-> projected.sales,
      totalBaselineEmissions |-> baseline.emissions,
      totalProjectedEmissions |-> projected.emissions,
      totalRevenueChange |-> PctChange(projected.sales, baseline.sales),
      totalEmissionsChange |-> PctChange(projected.emissions, baseline.emissions),
      totalEmissionsOffset |-> projected.emissions,
      totalEmissionsOffsetCost |-> NMul(projected.emissions, CARBON_OFFSET_COST_PER_KG),
      promotedProductsCount |-> Len(promoted)]]
ProcessPromoted(allProducts, promoted) ==
  ProcessResult(allProducts, promoted,
                ProjectedLoop(allProducts, <<>>, 1, [sales |-> Zero, emissions |-> Zero]),
                ProjectedLoop(allProducts, promoted, 1, [sales |-> Zero, emissions |-> Zero]))
ProcessSorted(allProducts) ==
  ProcessPromoted(allProducts,
                  PromotedProducts(SliceTo(allProducts, PROMOTION_PRODUCTS_COUNT), 1))
processProductData(data) ==
  ProcessSorted(SortBy(ProcessEntries(data, GroupSales(data.sales, 1, <<>>), 1),
                       "LowerEmissionsPerUnit"))

ProcessProductData ==
  /\ pc = "idle"
  /\ resp' = processProductData(csv)
  /\ pc' = "done"
  /\ UNCHANGED <<csv, ui, search>>

(***************************************************************************)
(* The supplier analysis handler (best-sellers/route.ts, second GET)       *)
(***************************************************************************)
Supplier_DISCOUNT_PERCENT == Rat(3, 20)

\* the volume convention of the power-law scenarios
SupplierNewVolumePowerLaw(originalVolume, elasticity) ==
  NMul(originalVolume, pow(NSub(One, Supplier_DISCOUNT_PERCENT), NNeg(elasticity)))
\* newVolume = originalVolume * (1 + elasticity * DISCOUNT_PERCENT)
SupplierNewVolume(originalVolume, elasticity) ==
  NMul(originalVolume, NAdd(One, NMul(elasticity, Supplier_DISCOUNT_PERCENT)))
\* the record pushed for a July sale of a product of the target supplier;
\* convertToKgCO2 is the function of the low-emissions handler
SupplierProcessed(data, sale, product) ==
  Const([category \in {FindCategory(data.categories, product)} |->
  Const([brand \in {FindBrand(data.brands, product.BrandKey)} |->
  Const([supplier \in {FindSupplier(data.suppliers, product.SupplierKey)} |->
  Const([categoryEmissions \in {IF category # Undefined
                                THEN convertToKgCO2(parseFloat(category.Est_Emission_Int),
                                                    category.Units)
                                ELSE Zero} |->
  Const([brandEmissions \in {IF brand # Undefined
                             THEN parseFloat(brand.Est_Emission_Int) ELSE Zero} |->
  Const([supplierEmissions \in {IF supplier # Undefined
                                THEN NMul(parseFloat(supplier.Distance_mi),
                                          parseFloat(supplier.Est_Emission_Int))
                                ELSE Zero} |->
  Const([totalEmissionsPerUnit \in {NAdd(NAdd(categoryEmissions, brandEmissions),
                                         supplierEmissions)} |->
  Const([originalPrice \in {parseFloat(sale.PredictedPrice)} |->
  Const([originalVolume \in {parseFloat(sale.EstimatedUnitVolume)} |->
  Const([marginPercent \in {NDiv(parseFloat(replacePct(product.Margin)), Int2Num(100))} |->
  Const([newPrice \in {NMul(originalPrice, NSub(One, Supplier_DISCOUNT_PERCENT))} |->
  Const([newVolume \in {SupplierNewVolume(originalVolume,
                                          parseFloat(product.Elasticity))} |->
  Const([originalSales \in {NMul(originalVolume, originalPrice)} |->
  Const([newSales \in {NMul(newVolume, newPrice)} |->
  Const([originalEmissions \in {NMul(originalVolume, totalEmissionsPerUnit)} |->
  Const([newEmissions \in {NMul(newVolume, totalEmissionsPerUnit)} |->
    [productKey |-> sale.ProductKey,
     originalPrice |-> originalPrice, newPrice |-> newPrice,
     originalVolume |-> originalVolume, newVolume |-> newVolume,
     originalSales |-> originalSales, newSales |-> newSales,
     salesUplift |-> NSub(newSales, originalSales),
     marginPercent |-> marginPercent,
     originalGrossProfit |-> NMul(originalSales, marginPercent),
     newGrossProfit |-> NMul(newSales, marginPercent),
     originalProfit |-> NMul(originalSales, marginPercent),
     newProfit |-> NMul(newSales, marginPercent),
     profitUplift |-> NSub(NMul(newSales, marginPercent),
                           NMul(originalSales, marginPercent)),
     originalEmissions |-> originalEmissions, newEmissions |-> newEmissions,
     emissionsChange |-> NSub(newEmissions, originalEmissions),
     originalOffsetCost |-> NMul(originalEmissions, CARBON_OFFSET_RATE),
     newOffsetCost |-> NMul(newEmissions, CARBON_OFFSET_RATE),
     offsetCostChange |-> NSub(NMul(newEmissions, CARBON_OFFSET_RATE),
                               NMul(originalEmissions, CARBON_OFFSET_RATE)),
     totalEmissionsPerUnit |-> totalEmissionsPerUnit]])])])])])])])])])])])])])])])])
\* julySales.forEach over the products of the target supplier
RECURSIVE SupplierLoop(_, _, _, _)
SupplierLoop(data, sales, products, j) ==
  IF j > Len(sales) THEN <<>>
  ELSE Const([product \in {FindProduct(products, sales[j].ProductKey)} |->
         (IF product = Undefined THEN <<>>
          ELSE <<SupplierProcessed(data, sales[j], product)>>)
           \o SupplierLoop(data, sales, products, j + 1)])
\* the response; emissionsChange of a product is the term of
\* totalEmissionsChange and not a field of the pushed record
SupplierSummary(processedProducts) ==
  [route |-> "supplier-analysis", status |-> 200,
   products |-> processedProducts,
   summary |->
     [originalTotalSales |-> SumField(processedProducts, "originalSales", 1, Zero),
      newTotalSales |-> SumField(processedProducts, "newSales", 1, Zero),
      totalSalesUplift |-> SumField(processedProducts, "salesUplift", 1, Zero),
      originalTotalProfit |-> SumField(processedProducts, "originalProfit", 1, Zero),
      newTotalProfit |-> SumField(processedProducts, "newProfit", 1, Zero),
      totalProfitUplift |-> SumField(processedProducts, "profitUplift", 1, Zero),
      originalTotalEmissions |-> SumField(processedProducts, "originalEmissions", 1, Zero),
      newTotalEmissions |-> SumField(processedProducts, "newEmissions", 1, Zero),
      totalEmissionsChange |-> SumField(processedProducts, "emissionsChange", 1, Zero),
      originalTotalOffsetCost |-> SumField(processedProducts, "originalOffsetCost", 1, Zero),
      newTotalOffsetCost |-> SumField(processedProducts, "newOffsetCost", 1, Zero),
      totalOffsetCostChange |-> SumField(processedProducts, "offsetCostChange", 1, Zero)]]
SupplierAnalysisResponse(data) ==
  SupplierSummary(SupplierLoop(data, julySales(data), supplierProducts(data), 1))

GetSupplierAnalysis ==
  /\ pc = "idle"
  /\ resp' = SupplierAnalysisResponse(csv)
  /\ pc' = "done"
  /\ UNCHANGED <<csv, ui, search>>

(***************************************************************************)
(* The tables of public/CSVs                                               *)
(***************************************************************************)
MaxRecords == 2

ProductTable ==
  << [ProductKey |-> "P1", BrandKey |-> "B1", SupplierKey |-> TARGET_SUPPLIER,
      ProductCategory_Lvl1 |-> "Food", ProductCategory_Lvl2 |-> "Snacks",
      Margin |-> Pct(20), Elasticity |-> Txt(2, 1)],
     [ProductKey |-> "P2", BrandKey |-> "B2", SupplierKey |-> TARGET_SUPPLIER,
      ProductCategory_Lvl1 |-> "Food", ProductCategory_Lvl2 |-> "Drinks",
      Margin |-> Pct(1), Elasticity |-> Txt(-1, 1)],
     [ProductKey |-> "P3", BrandKey |-> "B1", SupplierKey |-> "S2",
      ProductCategory_Lvl1 |-> "Home", ProductCategory_Lvl2 |-> "Clean",
      Margin |-> Pct(30), Elasticity |-> Txt(1, 1)],
     [ProductKey |-> "P4", BrandKey |-> "B9", SupplierKey |-> TARGET_SUPPLIER,
      ProductCategory_Lvl1 |-> "Home", ProductCategory_Lvl2 |-> "Misc",
      Margin |-> Pct(10), Elasticity |-> Txt(0, 1)] >>
SupplierTable ==
  << [SupplierKey |-> TARGET_SUPPLIER, Distance_mi |-> Txt(10, 1),
      Est_Emission_Int |-> Txt(1, 2), Units |-> "kg CO2"],
     [SupplierKey |-> "S2", Distance_mi |-> Txt(100, 1),
      Est_Emission_Int |-> Txt(1, 10), Units |-> "kg CO2"] >>
CategoryTable ==
  << [ProductCategory_Lvl1 |-> "Food", ProductCategory_Lvl2 |-> "Snacks",
      Est_Emission_Int |-> Txt(2, 1), Units |-> "kg CO2"],
     [ProductCategory_Lvl1 |-> "Food", ProductCategory_Lvl2 |-> "Drinks",
      Est_Emission_Int |-> Txt(190, 1), Units |-> "kg CO2"],
     [ProductCategory_Lvl1 |-> "Home", ProductCategory_Lvl2 |-> "Clean",
      Est_Emission_Int |-> Txt(500, 1), Units |-> "g CO2"] >>
BrandTable ==
  << [BrandKey |-> "B1", Est_Emission_Int |-> Txt(1, 1), Units |-> "kg CO2"],
     [BrandKey |-> "B2", Est_Emission_Int |-> Txt(5, 1), Units |-> "kg CO2"] >>

SaleRow(key, month, volume, price) ==
  [ProductKey |-> key, TransactionMonth |-> month,
   EstimatedUnitVolume |-> Txt(volume, 1), PredictedPrice |-> Txt(price, 1),
   EstimatedSales |-> Txt(volume * price, 1)]
\* the rows Monthly_sales_forecast.csv is drawn from
SalesCatalog ==
  << SaleRow("P1", "7", 100000, 100),
     SaleRow("P2", "7", 1000, 2300),
     SaleRow("P1", "7", 10, 100),
     SaleRow("P3", "7", 5, 40),
     SaleRow("P4", "7", 0, 50),
     SaleRow("P1", "6", 10, 100) >>

\* the rows of `rows` at the indices S, in order
RECURSIVE RowsAt(_, _, _)
RowsAt(rows, S, j) ==
  IF j > Len(rows) THEN <<>>
  ELSE IF j \in S THEN <<rows[j]>> \o RowsAt(rows, S, j + 1)
  ELSE RowsAt(rows, S, j + 1)
Dataset(sales) ==
  [sales |-> sales, products |-> ProductTable, categories |-> CategoryTable,
   brands |-> BrandTable, suppliers |-> SupplierTable]
Datasets ==
  {Dataset(RowsAt(SalesCatalog, S, 1)) :
     S \in {T \in SUBSET (1..Len(SalesCatalog)) : Cardinality(T) <= MaxRecords}}

SearchIdle ==
  /\ f = [kind |-> "const", p |-> Zero]
  /\ a = Zero /\ b = Zero /\ a0 = Zero /\ b0 = Zero
  /\ tolerance = Zero /\ maxIter = 0
  /\ c = Zero /\ d = Zero /\ fc = Zero /\ fd = Zero
  /\ i = 0 /\ evals = 0 /\ bestDiscount = Zero

Init ==
  /\ pc = "idle"
  /\ UiIdle
  /\ csv \in Datasets
  /\ resp = NoResp
  /\ SearchIdle

Next ==
  \/ GetBestSellers
  \/ GetBestSellersAnalysis
  \/ GetBestSellersData
  \/ GetEmissions
  \/ GetLowEmissions
  \/ GetOptimalDiscount
  \/ GetSupplierAnalysis
  \/ GSStart
  \/ GSIterate
  \/ GSReturn
  \/ OptimalRespond

Spec == Init /\ [][Next]_vars

(***************************************************************************)
(* The handlers on other contents of the emission tables                   *)
(***************************************************************************)
\* brand, supplier and category rows that carry the key of a product
KeyedBrands ==
  << [BrandKey |-> "P1", Est_Emission_Int |-> Txt(3, 1), Units |-> "kg CO2"],
     [BrandKey |-> "P4", Est_Emission_Int |-> Txt(1, 1), Units |-> "kg CO2"] >>
KeyedSuppliers ==
  << [SupplierKey |-> "P2", Distance_mi |-> Txt(10, 1),
      Est_Emission_Int |-> Txt(1, 2), Units |-> "kg CO2"] >>
KeyedCategories ==
  << [ProductCategory_Lvl1 |-> "Home", ProductCategory_Lvl2 |-> "P3",
      Est_Emission_Int |-> Txt(2, 1), Units |-> "kg CO2"] >>
\* the tables of public/CSVs, the tables with the keyed rows added, the tables
\* without the row of supplier S2, and the supplier table alone
TableVariants ==
  { [brands |-> BrandTable, suppliers |-> SupplierTable, categories |-> CategoryTable],
    [brands |-> BrandTable \o KeyedBrands, suppliers |-> SupplierTable \o KeyedSuppliers,
     categories |-> CategoryTable \o KeyedCategories],
    [brands |-> BrandTable, suppliers |-> SubSeq(SupplierTable, 1, 1),
     categories |-> CategoryTable],
    [brands |-> <<>>, suppliers |-> SupplierTable, categories |-> <<>>] }
TableInputs ==
  {[sales |-> RowsAt(SalesCatalog, S, 1), products |-> ProductTable,
    categories |-> v.categories, brands |-> v.brands, suppliers |-> v.suppliers] :
     S \in {T \in SUBSET (1..Len(SalesCatalog)) : Cardinality(T) <= MaxRecords},
     v \in TableVariants}

InitTables ==
  /\ pc = "idle"
  /\ UiIdle
  /\ csv \in TableInputs
  /\ resp = NoResp
  /\ SearchIdle

NextTables ==
  \/ ProcessProductData
  \/ GetBestSellers
  \/ GetEmissions
  \/ GetLowEmissions
  \/ GetSupplierAnalysis
SpecTables == InitTables /\ [][NextTables]_vars

(***************************************************************************)
(* calculateMetricsForDiscount and the bonus logic on drawn inputs         *)
(***************************************************************************)
\* rows whose sales total meets, passes or misses BONUS_THRESHOLD
MetricsCatalog ==
  << SaleRow("P1", "7", 1, BONUS_THRESHOLD),
     SaleRow("P1", "7", 1, BONUS_THRESHOLD + 1),
     SaleRow("P4", "7", 1, BONUS_THRESHOLD - 1),
     SaleRow("P4", "7", 1, 1),
     SaleRow("P9", "7", 1, 5) >>
MetricsInputs ==
  {Dataset(RowsAt(MetricsCatalog, S, 1)) :
     S \in {T \in SUBSET (1..Len(MetricsCatalog)) : Cardinality(T) <= MaxRecords}}
TestDiscounts == {Zero, Rat(1, 20), Rat(1, 4), Rat(1, 2)}

\* calculateMetricsForDiscount(bestDiscount, relevantSales, supplierProducts,
\* totalEmissionsPerUnit)
ApplyMetrics ==
  /\ pc = "idle"
  /\ resp.route = "metrics"
  /\ \E t \in {calculateMetricsForDiscount(bestDiscount, relevantSales(csv),
                                           supplierProducts(csv),
                                           OptimalEmissionsPerUnit(csv))} :
       resp' = [route |-> "metrics", totalSales |-> t.totalSales,
                totalNetProfit |-> t.totalNetProfit,
                bonusTriggered |-> FALSE, newProfitWithBonus |-> Zero]
  /\ pc' = "metrics"
  /\ UNCHANGED <<csv, ui, search>>

\* the bonus logic on the metrics just computed
ApplyBonusLogic ==
  /\ pc = "metrics"
  /\ \E bonus \in {BonusLogic(resp.totalSales, resp.totalNetProfit)} :
       resp' = [resp EXCEPT !.bonusTriggered = bonus.bonusTriggered,
                            !.newProfitWithBonus = bonus.newProfitWithBonus]
  /\ pc' = "done"
  /\ UNCHANGED <<csv, ui, search>>

InitMetrics ==
  /\ pc = "idle"
  /\ UiIdle
  /\ csv \in MetricsInputs
  /\ resp = [route |-> "metrics"]
  /\ f = [kind |-> "const", p |-> Zero]
  /\ a = Zero /\ b = Zero /\ a0 = Zero /\ b0 = Zero
  /\ tolerance = Zero /\ maxIter = 0
  /\ c = Zero /\ d = Zero /\ fc = Zero /\ fd = Zero
  /\ i = 0 /\ evals = 0
  /\ bestDiscount \in TestDiscounts

NextMetrics == ApplyMetrics \/ ApplyBonusLogic
SpecMetrics == InitMetrics /\ [][NextMetrics]_vars

(***************************************************************************)
(* The response conventions on drawn records and discount rates            *)
(***************************************************************************)
SteepElasticity == 10

\* low-emissions/route.ts 144-162 with the rate in place of DISCOUNT_RATE
\* (LinearResponseUplift takes the uplift volume * elasticity * rate for the
\* new volume)
LinearResponseUplift(volume, price, margin, elasticity, perUnit, rate) ==
  Const([NewVolume \in {NMul(volume, NMul(elasticity, rate))} |->
    [NewPrice |-> NMul(price, NSub(One, rate)), NewVolume |-> NewVolume,
     BaselineSales |-> NMul(volume, price),
     NewSales |-> NMul(NewVolume, NMul(price, NSub(One, rate))),
     BaselineProfit |-> NMul(NMul(volume, price), margin),
     NewProfit |-> NMul(NMul(NewVolume, NMul(price, NSub(One, rate))), margin),
     BaselineEmissions |-> NMul(volume, perUnit),
     NewEmissions |-> NMul(NewVolume, perUnit),
     BaselineOffsetCost |-> NMul(NMul(volume, perUnit), CARBON_OFFSET_RATE),
     NewOffsetCost |-> NMul(NMul(NewVolume, perUnit), CARBON_OFFSET_RATE)]])
LinearResponse(volume, price, margin, elasticity, perUnit, rate) ==
  Const([NewPrice \in {NMul(price, NSub(One, rate))} |->
  Const([NewVolume \in {NMul(volume, NAdd(One, NMul(elasticity, rate)))} |->
  Const([BaselineSales \in {NMul(volume, price)} |->
  Const([NewSales \in {NMul(NewVolume, NewPrice)} |->
  Const([BaselineEmissions \in {NMul(volume, perUnit)} |->
  Const([NewEmissions \in {NMul(NewVolume, perUnit)} |->
    [NewPrice |-> NewPrice, NewVolume |-> NewVolume,
     BaselineSales |-> BaselineSales, NewSales |-> NewSales,
     BaselineProfit |-> NMul(BaselineSales, margin),
     NewProfit |-> NMul(NewSales, margin),
     BaselineEmissions |-> BaselineEmissions, NewEmissions |-> NewEmissions,
     BaselineOffsetCost |-> NMul(BaselineEmissions, CARBON_OFFSET_RATE),
     NewOffsetCost |-> NMul(NewEmissions, CARBON_OFFSET_RATE)]])])])])])])

\* one forecast row of product P1 and the tables that give P1 its elasticity
\* and its emissions per unit (through the brand row alone)
FormulaData(volume, price, elasticity, factor) ==
  [sales |-> <<SaleRow("P1", "7", volume, price)>>,
   products |-> <<[ProductKey |-> "P1", BrandKey |-> "B1",
                   SupplierKey |-> TARGET_SUPPLIER,
                   ProductCategory_Lvl1 |-> "Food", ProductCategory_Lvl2 |-> "Snacks",
                   Margin |-> Pct(20), Elasticity |-> elasticity]>>,
   categories |-> <<>>,
   brands |-> <<[BrandKey |-> "B1", Est_Emission_Int |-> Txt(factor, 1),
                 Units |-> "kg CO2"]>>,
   suppliers |-> <<>>]
FormulaElasticities ==
  {Txt(-SteepElasticity, 1), Txt(-1, 1), Txt(0, 1), Txt(1, 2), Txt(2, 1)}
FormulaInputs ==
  {FormulaData(volume, price, elasticity, factor) :
     volume \in {0, 5, 10}, price \in {0, 40, 100},
     elasticity \in FormulaElasticities, factor \in {0, 8}}
\* zero, the rates of the fixed-discount handlers and the bounds of the search
FormulaRates ==
  {Zero, DEFAULT_A, BestSellers_DISCOUNT_RATE, Supplier_DISCOUNT_PERCENT,
   LowEmissions_DISCOUNT_RATE, DEFAULT_B}

\* the record of low-emissions/route.ts 121-131 put through lines 144-162
LinearOfRecord(record, sale, product, rate) ==
  LinearResponse(parseFloat(sale.EstimatedUnitVolume), parseFloat(sale.PredictedPrice),
                 NDiv(parseFloat(replacePct(product.Margin)), Int2Num(100)),
                 parseFloat(product.Elasticity), record.Total_Emission_per_unit, rate)
ApplyLinearResponse ==
  /\ pc = "idle"
  /\ resp.route = "formulas"
  /\ resp.linear = Null
  /\ resp' = [resp EXCEPT !.linear =
                LinearOfRecord(MergedRecord(csv, csv.sales[1], csv.products[1]),
                               csv.sales[1], csv.products[1], bestDiscount)]
  /\ UNCHANGED <<pc, csv, ui, search>>

\* the forEach body of calculateMetricsForDiscount on the same row
ApplyFlooredResponse ==
  /\ pc = "idle"
  /\ resp.route = "formulas"
  /\ resp.floored = Null
  /\ resp' = [resp EXCEPT !.floored =
                SaleAtDiscount(bestDiscount, csv.sales[1], csv.products[1],
                               OptimalEmissionsPerUnit(csv))]
  /\ UNCHANGED <<pc, csv, ui, search>>

InitFormulas ==
  /\ pc = "idle"
  /\ UiIdle
  /\ csv \in FormulaInputs
  /\ resp = [route |-> "formulas", linear |-> Null, floored |-> Null]
  /\ f = [kind |-> "const", p |-> Zero]
  /\ a = Zero /\ b = Zero /\ a0 = Zero /\ b0 = Zero
  /\ tolerance = Zero /\ maxIter = 0
  /\ c = Zero /\ d = Zero /\ fc = Zero /\ fd = Zero
  /\ i = 0 /\ evals = 0
  /\ bestDiscount \in FormulaRates

\* the two conventions, and the fixed-discount handlers on the same tables
NextFormulas ==
  \/ ApplyLinearResponse
  \/ ApplyFlooredResponse
  \/ GetLowEmissions
  \/ GetSupplierAnalysis
SpecFormulas == InitFormulas /\ [][NextFormulas]_vars

(***************************************************************************)
(* loadCSVData (unnamed/part_008), called twice on the same tables         *)
(***************************************************************************)
\* values Math.random() may return
RandomDraws == {Zero, Rat(1, 2), Rat(9, 10)}

\* productRecords.reduce: acc[product.ProductKey] = 0.5 + Math.random() * 4.5,
\* draws[j] being the value Math.random() returns for row j
DrawnEmissions(productRecords, draws) ==
  [key \in ProductKeys(productRecords) |->
     NAdd(Rat(1, 2),
          NMul(draws[LastIndexOfKey(productRecords, key)], Rat(9, 2)))]
loadCSVData(data, draws) ==
  [salesData |-> data.sales, productData |-> data.products,
   emissionsPerUnit |-> DrawnEmissions(data.products, draws)]

LoadCSVData ==
  /\ pc = "idle"
  /\ resp.route = "loadCSVData"
  /\ resp.second = Null
  /\ \E draws \in [1..Len(csv.products) -> RandomDraws] :
       resp' = IF resp.first = Null
               THEN [resp EXCEPT !.first = loadCSVData(csv, draws)]
               ELSE [resp EXCEPT !.second = loadCSVData(csv, draws)]
  /\ UNCHANGED <<pc, csv, ui, search>>

\* product tables of one and of two products
LoadInputs ==
  {[sales |-> RowsAt(SalesCatalog, S, 1), products |-> SubSeq(ProductTable, 1, n),
    categories |-> CategoryTable, brands |-> BrandTable, suppliers |-> SupplierTable] :
     S \in {{1}, {2, 3}}, n \in {1, 2}}
InitLoads ==
  /\ pc = "idle"
  /\ UiIdle
  /\ csv \in LoadInputs
  /\ resp = [route |-> "loadCSVData", first |-> Null, second |-> Null]
  /\ SearchIdle

NextLoads == LoadCSVData
SpecLoads == InitLoads /\ [][NextLoads]_vars

(***************************************************************************)
(* The objective evaluated at the two interior points, in either order     *)
(***************************************************************************)
\* what an evaluation of calculateMetricsForDiscount leaves in salesData,
\* productData and the tables totalEmissionsPerUnit is built from: the body
\* reads them and assigns to none (TablesAfterShift is the variant in which
\* an evaluation consumes the first sales record)
TablesAfterShift(data) ==
  IF Len(data.sales) = 0 THEN data ELSE [data EXCEPT !.sales = Tail(data.sales)]
TablesAfterMetrics(data) == data

\* fc = f(c)
EvaluateC ==
  /\ pc = "idle"
  /\ resp.route = "evaluations"
  /\ \A j \in 1..Len(resp.order) : resp.order[j] # "c"
  /\ fc' = objectiveFunction(csv, c)
  /\ csv' = TablesAfterMetrics(csv)
  /\ resp' = [resp EXCEPT !.order = Append(resp.order, "c")]
  /\ evals' = evals + 1
  /\ UNCHANGED <<pc, ui, f, a, b, c, d, fd, i, tolerance, maxIter, a0, b0, bestDiscount>>
\* fd = f(d)
EvaluateD ==
  /\ pc = "idle"
  /\ resp.route = "evaluations"
  /\ \A j \in 1..Len(resp.order) : resp.order[j] # "d"
  /\ fd' = objectiveFunction(csv, d)
  /\ csv' = TablesAfterMetrics(csv)
  /\ resp' = [resp EXCEPT !.order = Append(resp.order, "d")]
  /\ evals' = evals + 1
  /\ UNCHANGED <<pc, ui, f, a, b, c, d, fc, i, tolerance, maxIter, a0, b0, bestDiscount>>

InitEvaluations ==
  /\ pc = "idle"
  /\ UiIdle
  /\ csv \in Datasets
  /\ resp = [route |-> "evaluations", order |-> <<>>]
  /\ f = [kind |-> "profit", p |-> Zero]
  /\ a = DEFAULT_A /\ b = DEFAULT_B /\ a0 = DEFAULT_A /\ b0 = DEFAULT_B
  /\ tolerance = DEFAULT_TOLERANCE /\ maxIter = DEFAULT_MAX_ITER
  /\ c \in {Rat(1, 10), Rat(1, 5)}
  /\ d \in {Rat(3, 10), Rat(2, 5)}
  /\ fc = Zero /\ fd = Zero
  /\ i = 0 /\ evals = 0 /\ bestDiscount = Zero

NextEvaluations == EvaluateC \/ EvaluateD
SpecEvaluations == InitEvaluations /\ [][NextEvaluations]_vars

(***************************************************************************)
(* ProtectedLayout ((protected)/layout.tsx)                                *)
(***************************************************************************)
MaxAuthEvents == 6

\* the sessions Supabase may hand out
Sessions == {[user |-> "alice"], [user |-> "bob"]}

\* lines 42-45: what the component returns in the current state
LayoutView == IF loading THEN "Loading..." ELSE "children"

\* lines 19-40: the effect of the first render calls getSession() and
\* subscribes to the auth state changes
LayoutEffect ==
  /\ pc = "rendered"
  /\ pending' = [pending EXCEPT !.getSession = "awaiting", !.subscribed = TRUE]
  /\ pc' = "mounted"
  /\ UNCHANGED <<csv, resp, search, session, loading, location, comparison, error>>

\* lines 21-27: supabase.auth.getSession() resolves with the session the
\* client holds; the state of a component that was unmounted meanwhile is not
\* updated
GetSessionSettles ==
  /\ pending.getSession = "awaiting"
  /\ \E s \in {pending.stored} :
       /\ session' = IF pc = "mounted" THEN s ELSE session
       /\ location' = IF s = Null THEN "/login" ELSE location
  /\ loading' = IF pc = "mounted" THEN FALSE ELSE loading
  /\ pending' = [pending EXCEPT !.getSession = "settled"]
  /\ UNCHANGED <<pc, csv, resp, search, comparison, error>>

\* lines 32-35: the session the client holds changes (sign-in, sign-out, token
\* refresh) and the listener of onAuthStateChange is called with it
AuthStateChange ==
  /\ pending.subscribed
  /\ pending.events < MaxAuthEvents
  /\ \E newSession \in Sessions \cup {Null} :
       /\ session' = newSession
       /\ location' = IF newSession = Null THEN "/login" ELSE location
       /\ pending' = [pending EXCEPT !.events = @ + 1, !.stored = newSession]
  /\ UNCHANGED <<pc, csv, resp, search, loading, comparison, error>>

\* lines 37-39: the navigation to /login unmounts the layout, and the cleanup
\* of the effect unsubscribes the listener
LayoutCleanup ==
  /\ pc = "mounted"
  /\ location = "/login"
  /\ pending' = [pending EXCEPT !.subscribed = FALSE]
  /\ pc' = "unmounted"
  /\ UNCHANGED <<csv, resp, search, session, loading, location, comparison, error>>

\* the first render: useState(null), useState(true)
InitLayout ==
  /\ pc = "rendered"
  /\ session = Null /\ loading = TRUE /\ location = "/dashboard"
  /\ comparison = Null /\ error = Null
  /\ \E stored \in Sessions \cup {Null} :
       pending = [getSession |-> "idle", subscribed |-> FALSE, events |-> 0,
                  stored |-> stored]
  /\ csv = NoData
  /\ resp = NoResp
  /\ SearchIdle

NextLayout == LayoutEffect \/ GetSessionSettles \/ AuthStateChange \/ LayoutCleanup
SpecLayout == InitLayout /\ [][NextLayout]_vars

(***************************************************************************)
(* PromotionsComparison (components/PromotionsComparison.tsx)              *)
(***************************************************************************)
MaxFetches == 8

\* lines 94-128: the panel the component returns in the current state
ComparisonView ==
  IF loading THEN "spinner"
  ELSE IF error # Null THEN "error"
  ELSE IF comparison = Null THEN "no data"
  ELSE "comparison"

\* line 53 and the two fetches of line 55-58
FetchDataCalled ==
  /\ loading' = TRUE
  /\ pending' = [phase |-> "fetching", calls |-> pending.calls + 1]
  /\ resp' = [route |-> "PromotionsComparison", emissions |-> "pending",
              bestSellers |-> "pending", bodies |-> "pending"]
  /\ UNCHANGED <<csv, search, session, location, comparison, error>>

\* lines 80-82: the effect of the first render calls fetchData
ComparisonEffect ==
  /\ pc = "rendered"
  /\ pc' = "mounted"
  /\ FetchDataCalled

\* lines 107 and 121: the Retry button of the error and no-data panels
Retry ==
  /\ pc = "mounted"
  /\ ComparisonView \in {"error", "no data"}
  /\ pending.calls < MaxFetches
  /\ pc' = pc
  /\ FetchDataCalled

\* an Error with the message `text`; the state `error` is null or holds the
\* message of an Error
Error(text) == [message |-> text]
\* the two responses, each ok or not, or the Error the fetch rejects with
FetchOutcomes ==
  {[emissions |-> e, bestSellers |-> s, thrown |-> Null] :
     e \in {"ok", "not ok"}, s \in {"ok", "not ok"}}
    \cup {[emissions |-> "rejected", bestSellers |-> "rejected",
           thrown |-> Error("Failed to fetch")]}

\* lines 55-62 and 73-77: the first Promise.all settles
ResponsesArrive ==
  /\ pending.phase = "fetching"
  /\ \E o \in FetchOutcomes :
       /\ resp' = [resp EXCEPT !.emissions = o.emissions,
                               !.bestSellers = o.bestSellers]
       /\ IF o.thrown # Null
          THEN error' = o.thrown /\ loading' = FALSE
               /\ pending' = [pending EXCEPT !.phase = "idle"]
          ELSE IF o.emissions # "ok" \/ o.bestSellers # "ok"
          THEN error' = Error("Failed to fetch analysis data")
               /\ loading' = FALSE
               /\ pending' = [pending EXCEPT !.phase = "idle"]
          ELSE error' = error /\ loading' = loading
               /\ pending' = [pending EXCEPT !.phase = "parsing"]
  /\ UNCHANGED <<pc, csv, search, session, location, comparison>>

\* lines 64-77: the second Promise.all settles, with the two bodies or with
\* the rejection of json()
BodiesArrive ==
  /\ pending.phase = "parsing"
  /\ \E parsed \in BOOLEAN :
       /\ resp' = [resp EXCEPT !.bodies = IF parsed THEN "parsed" ELSE "rejected"]
       /\ comparison' = IF parsed
                        THEN [emissions |-> [name |-> "Low-Emission Products"],
                              bestSellers |-> [name |-> "Best Sellers"]]
                        ELSE comparison
       /\ error' = IF parsed THEN error
                   ELSE Error("Unexpected end of JSON input")
  /\ loading' = FALSE
  /\ pending' = [pending EXCEPT !.phase = "idle"]
  /\ UNCHANGED <<pc, csv, search, session, location>>

\* the first render: useState(null), useState(true), useState(null)
InitComparison ==
  /\ pc = "rendered"
  /\ session = Null /\ loading = TRUE /\ location = "/dashboard"
  /\ comparison = Null /\ error = Null
  /\ pending = [phase |-> "idle", calls |-> 0]
  /\ csv = NoData
  /\ resp = NoResp
  /\ SearchIdle

NextComparison == ComparisonEffect \/ Retry \/ ResponsesArrive \/ BodiesArrive
SpecComparison == InitComparison /\ [][NextComparison]_vars

(***************************************************************************)
(* Properties of goldenSectionSearch                                       *)
(***************************************************************************)
Running == pc \in {"search", "returned"}
DefaultCall ==
  /\ a0 = DEFAULT_A /\ b0 = DEFAULT_B
  /\ tolerance = DEFAULT_TOLERANCE /\ maxIter = DEFAULT_MAX_ITER
\* the objective is a strictly concave quadratic whose maximizer f.p lies in [a0, b0]
ConcaveInBracket == f.kind = "concave" /\ NLE(a0, f.p) /\ NLE(f.p, b0)
\* r to the power k, by repeated squaring
NSquare(x) == NMul(x, x)
RECURSIVE RPow(_)
RPow(k) ==
  IF k = 0 THEN One
  ELSE IF k % 2 = 0 THEN NSquare(RPow(k \div 2))
  ELSE NMul(InvGr, RPow(k - 1))
\* (b0 - a0) / gr^maxIter < tolerance: the tolerance test is met within the cap
CapReachesTolerance == NLT(NMul(NSub(b0, a0), RPow(maxIter)), tolerance)

\* C4 as stated: for a strictly concave quadratic with maximizer x* in [a, b],
\* default tolerance and iteration cap, x* stays in the bracket after every
\* iteration and the returned value is within tolerance of x*
ConcaveMaximizerFound ==
  (ConcaveInBracket /\ tolerance = DEFAULT_TOLERANCE /\ maxIter = DEFAULT_MAX_ITER) =>
     /\ Running => NLE(a, f.p) /\ NLE(f.p, b)
     /\ pc = "returned" => NLE(NAbs(NSub(bestDiscount, f.p)), tolerance)

\* C4 amended: for a strictly concave quadratic with maximizer x* in [a, b], x*
\* stays in the bracket after every iteration, and the returned value is within
\* tolerance of x* when (b - a) / gr^maxIter < tolerance, as with the defaults
ConcaveMaximizerFoundWithinCap ==
  ConcaveInBracket =>
     /\ Running => NLE(a, f.p) /\ NLE(f.p, b)
     /\ (pc = "returned" /\ CapReachesTolerance) =>
          NLE(NAbs(NSub(bestDiscount, f.p)), tolerance)
ConcaveDefaultReturned ==
  /\ pc = "returned" /\ DefaultCall /\ f.kind = "concave"
  /\ NLT(a0, f.p) /\ NLT(f.p, b0)
  /\ i >= 1
  /\ NLT(NAbs(NSub(bestDiscount, f.p)), tolerance)

\* C5: every iteration of the loop that does not exit replaces the bracket by
\* one whose width is exactly the previous width divided by the golden ratio,
\* whichever branch is taken
WidthShrinksByGr ==
  [][(pc = "search" /\ pc' = "search") =>
       NEQ(NSub(b', a'), NMul(NSub(b, a), InvGr))]_vars
BothBranchesTaken ==
  /\ pc = "search" /\ i >= 2
  /\ NGT(a, a0) /\ NLT(b, b0)

\* C6: the bracket shrinks on the right (b <- d) exactly when f(c) > f(d) and on
\* the left (a <- c) otherwise, a tie included; the loop goes on only while
\* fewer than maxIter iterations ran and |b - a| >= tolerance; the result is
\* the midpoint (a + b) / 2
BranchExitAndMidpoint ==
  [][pc = "search" =>
       /\ pc' = "search" =>
            /\ i < maxIter
            /\ ~NLT(NAbs(NSub(b, a)), tolerance)
            /\ IF NGT(Objective(f, c), Objective(f, d))
               THEN b' = d /\ a' = a
               ELSE a' = c /\ b' = b
       /\ pc' = "returned" =>
            /\ i >= maxIter \/ NLT(NAbs(NSub(b, a)), tolerance)
            /\ NEQ(NAdd(bestDiscount', bestDiscount'), NAdd(a, b))]_vars
TieShrinksLeft ==
  /\ pc = "returned" /\ f.kind = "const"
  /\ i >= 2
  /\ NGT(a, a0) /\ NEQ(b, b0)

\* C7: the search ends; it runs at most maxIter iterations and evaluates the
\* objective at most maxIter + 2 times; called with the default bounds,
\* tolerance and cap it exits through the tolerance test before the cap
SearchEndsWithinCap ==
  /\ [](i <= maxIter /\ evals <= maxIter + 2)
  /\ []((pc = "returned" /\ DefaultCall) =>
          (i < maxIter /\ NLT(NAbs(NSub(b, a)), tolerance)))
  /\ <>(pc = "returned")
DefaultExitsOnTolerance ==
  /\ pc = "returned" /\ DefaultCall
  /\ 0 < i /\ i < maxIter /\ evals = i + 2

(***************************************************************************)
(* Properties of the optimal-discount handler                              *)
(***************************************************************************)
OptimalDone == pc = "done" /\ resp.route = "optimal-discount"
\* the sum over the products of newGrossProfit - offsetCost at `discount`
NetProfitSum(discount) ==
  MetricsLoop(discount, relevantSales(csv), supplierProducts(csv),
              OptimalEmissionsPerUnit(csv), 1,
              [totalSales |-> Zero, totalNetProfit |-> Zero]).totalNetProfit
BonusOnce(sales) == IF NGT(sales, Int2Num(2000000)) THEN Int2Num(50000) ELSE Zero

\* C1: the newProfitWithBonus of the response is the sum over the products of
\* newGrossProfit - offsetCost at the returned discount, plus 50,000 once when
\* the projected sales exceed 2,000,000 and plus nothing otherwise
ProfitWithBonusOnce ==
  OptimalDone =>
    NEQ(resp.newProfitWithBonus,
        NAdd(NetProfitSum(resp.optimalDiscount), BonusOnce(resp.newRevenue)))

\* C2: calculateMetricsForDiscount adds 50,000 to totalNetProfit when totalSales
\* is above 2,000,000 and nothing when it is 2,000,000 or less, and the
\* bonusTriggered flag follows the same strict comparison
StrictBonusComparison ==
  /\ (pc \in {"metrics", "done"} /\ resp.route = "metrics") =>
       NEQ(resp.totalNetProfit, NAdd(NetProfitSum(bestDiscount), BonusOnce(resp.totalSales)))
  /\ (pc = "done" /\ resp.route = "metrics") =>
       (resp.bonusTriggered <=> NGT(resp.totalSales, Int2Num(2000000)))
ThresholdMetExactly ==
  /\ pc = "done" /\ resp.route = "metrics"
  /\ NEQ(resp.totalSales, Int2Num(2000000))
  /\ ~resp.bonusTriggered
  /\ NEQ(resp.totalNetProfit, NetProfitSum(bestDiscount))

GridSteps == 4
\* the rates 0.05 + k * 0.45 / GridSteps of the discount domain
DiscountGrid ==
  {NAdd(DEFAULT_A, NMul(NSub(DEFAULT_B, DEFAULT_A), Rat(k, GridSteps))) : k \in 0..GridSteps}
\* no rate of the grid outside the final bracket [a, b], which holds the
\* returned rate and is narrower than the tolerance, has a higher objective
\* than the end of the bracket next to it
NoBetterRateOnGrid ==
  \A x \in DiscountGrid :
     /\ NLT(x, a) => NLE(objectiveFunction(csv, x), objectiveFunction(csv, a))
     /\ NGT(x, b) => NLE(objectiveFunction(csv, x), objectiveFunction(csv, b))
\* every product of the search has a non-negative elasticity and margin, and
\* the bonus applies at every rate of the grid or at none
NonNegative(sale, product) ==
  product # Undefined =>
    /\ NGE(parseFloat(product.Elasticity), Zero)
    /\ NGE(parseFloat(replacePct(product.Margin)), Zero)
SalesAt(x) ==
  MetricsLoop(x, relevantSales(csv), supplierProducts(csv), OptimalEmissionsPerUnit(csv), 1,
              [totalSales |-> Zero, totalNetProfit |-> Zero]).totalSales
ConcaveObjective ==
  /\ \A j \in 1..Len(relevantSales(csv)) :
       NonNegative(relevantSales(csv)[j],
                   FindProduct(supplierProducts(csv), relevantSales(csv)[j].ProductKey))
  /\ \/ \A x \in DiscountGrid : NGT(SalesAt(x), Int2Num(2000000))
     \/ \A x \in DiscountGrid : ~NGT(SalesAt(x), Int2Num(2000000))

\* C3 as stated: for every product set the returned discount maximizes the
\* objective over [0.05, 0.5] up to the tolerance: no rate further from it than
\* the final bracket has a higher objective
ReturnedRateMaximizes == OptimalDone => NoBetterRateOnGrid

\* C3 amended: the returned discount maximizes the objective over [0.05, 0.5]
\* up to the tolerance when the elasticities and margins of the products are
\* non-negative and the bonus applies at every rate of the domain or at none
ReturnedRateMaximizesConcave == (OptimalDone /\ ConcaveObjective) => NoBetterRateOnGrid
InteriorOptimumReturned ==
  /\ OptimalDone /\ ConcaveObjective
  /\ Len(relevantSales(csv)) > 0
  /\ NGT(a, DEFAULT_A) /\ NLT(b, DEFAULT_B)
  /\ NoBetterRateOnGrid

(***************************************************************************)
(* Properties of the scenario responses                                    *)
(***************************************************************************)
Answered == pc = "done" /\ resp.route # "metrics"
TotalNames == {"totalSales", "totalProfit", "totalEmissions", "totalOffsetCost"}
\* the pairs <<baseline total, ratio reported for it>> of a response
RatioPairs(r) ==
  IF r.status # 200 THEN {}
  ELSE IF r.route \in {"best-sellers", "low-emissions"}
  THEN {<<r.baseline.totalSales, r.ratios.sales>>,
        <<r.baseline.totalProfit, r.ratios.profit>>,
        <<r.baseline.totalEmissions, r.ratios.emissions>>,
        <<r.baseline.totalOffsetCost, r.ratios.offsetCost>>}
  ELSE IF r.route = "best-sellers-analysis"
  THEN {<<r.sales.baselineRevenue, r.sales.revenueChange>>,
        <<r.profit.baselineTotalProfit, r.profit.profitChange>>}
  ELSE IF r.route = "supplier-analysis"
  THEN {}
  ELSE IF r.route = "optimal-discount"
  THEN {<<r.previousProfit, r.profitPercentageIncrease>>,
        <<r.previousRevenue, r.revenuePercentageIncrease>>,
        <<r.previousEmissions, r.emissionsPercentageIncrease>>,
        <<r.previousProfit, r.emissionsPerProfitBefore>>}
  ELSE {<<r.totals.companyBaselineRevenue, r.totals.companyRevenueChange>>,
        <<r.totals.promotedProductsBaselineRevenue,
          r.totals.promotedProductsRevenueChange>>}
DividedByZero(x) == x.k \in {"nan", "pinf", "ninf"}

\* C8: whenever a baseline total of a response is zero, the ratio reported for
\* it is not the result of the division by zero, neither NaN nor an Infinity
ZeroBaselineNotApplicable ==
  Answered =>
    \A pair \in RatioPairs(resp) : NEQ(pair[1], Zero) => ~DividedByZero(pair[2])

\* the totals of a response
TotalsOf(r) ==
  IF r.route \in {"best-sellers", "low-emissions"}
  THEN {r.baseline[t] : t \in TotalNames} \cup {r.new[t] : t \in TotalNames}
  ELSE IF r.route = "best-sellers-analysis"
  THEN {r.sales.baselineTotalSales, r.sales.newTotalSales, r.sales.baselineRevenue,
        r.sales.newRevenue, r.profit.baselineTotalProfit, r.profit.newTotalProfit,
        r.emissionsAndOffset.baselineTotalEmissions,
        r.emissionsAndOffset.newTotalEmissions}
  ELSE IF r.route = "supplier-analysis"
  THEN {r.summary.originalTotalSales, r.summary.newTotalSales,
        r.summary.originalTotalProfit, r.summary.newTotalProfit,
        r.summary.originalTotalEmissions, r.summary.newTotalEmissions,
        r.summary.originalTotalOffsetCost, r.summary.newTotalOffsetCost}
  ELSE IF r.route = "optimal-discount"
  THEN {r.previousProfit, r.newProfitWithBonus, r.previousRevenue, r.newRevenue,
        r.previousEmissions, r.newEmissions}
  ELSE {r.totals.companyBaselineRevenue, r.totals.companyProjectedRevenue,
        r.totals.promotedProductsBaselineRevenue,
        r.totals.promotedProductsProjectedRevenue}

\* C9: when no July record is in the forecast, so that the product set of every
\* scenario is empty, the scenario answers normally, never with the error
\* response, and every total of the answer is 0
EmptySetAnswersNormally ==
  (Answered /\ julySales(csv) = <<>>) =>
    /\ resp.status = 200
    /\ \A x \in TotalsOf(resp) : NEQ(x, Zero)

\* the rows of julySales in S are the k rows with the highest sales value
TopBySales(S, sales, k) ==
  /\ Cardinality(S) = k
  /\ \A j \in S, l \in (1..Len(sales)) \ S :
       NGE(parseFloat(sales[j].EstimatedSales), parseFloat(sales[l].EstimatedSales))

\* C10: in a best-seller scenario the records that get the discount are exactly
\* the ceiling(count * 0.10) July records with the highest sales value
TopTenPercentDiscounted ==
  (Answered /\ resp.route \in {"best-sellers", "best-sellers-analysis"}
            /\ resp.status = 200) =>
    TopBySales(resp.discounted, julySales(csv),
               CeilUpTo(NMul(Int2Num(resp.count), Rat(1, 10)), resp.count))

\* two numbers are the same value
SameNum(x, y) == x = y \/ NEQ(x, y)
SameTotals(s, t) ==
  /\ SameNum(s.sales, t.sales) /\ SameNum(s.profit, t.profit)
  /\ SameNum(s.emissions, t.emissions) /\ SameNum(s.offsetCost, t.offsetCost)
\* what a July record adds to the baseline totals and, once discounted, to the
\* projected totals of a best-seller scenario
AnalysisContribution(r) ==
  [baseline |-> [sales |-> r.baseline.revenue, profit |-> r.baseline.profit,
                 emissions |-> r.baseline.emissions,
                 offsetCost |-> NMul(r.baseline.emissions, offsetCostPerKg)],
   new |-> [sales |-> r.new.revenue, profit |-> r.new.profit,
            emissions |-> r.new.emissions,
            offsetCost |-> NMul(r.new.emissions, offsetCostPerKg)]]
BestSellerContribution(route, data, sale, product, threshold) ==
  IF route = "best-sellers"
  THEN BestSellerSale(sale, product, BestSellersEmissionsPerUnit(data), threshold)
  ELSE AnalysisContribution(AnalysisRecord(data, sale, product))
\* the projected totals when only the selected rows change
FramedStep(route, data, sale, product, isSelected, threshold, acc) ==
  IF product = Undefined THEN acc
  ELSE Const([r \in {BestSellerContribution(route, data, sale, product, threshold)} |->
         AddTotals(acc, IF isSelected THEN r.new ELSE r.baseline)])
RECURSIVE FramedTotals(_, _, _, _, _, _, _)
FramedTotals(route, data, sales, selected, threshold, j, acc) ==
  IF j > Len(sales) THEN acc
  ELSE FramedTotals(route, data, sales, selected, threshold, j + 1,
         FramedStep(route, data, sales[j], FindProduct(data.products, sales[j].ProductKey),
                    j \in selected, threshold, acc))
\* the projected totals a best-seller response reports
ProjectedTotals(r) ==
  IF r.route = "best-sellers"
  THEN [sales |-> r.new.totalSales, profit |-> r.new.totalProfit,
        emissions |-> r.new.totalEmissions, offsetCost |-> r.new.totalOffsetCost]
  ELSE [sales |-> r.sales.newRevenue, profit |-> r.profit.newTotalProfit,
        emissions |-> r.emissionsAndOffset.newTotalEmissions,
        offsetCost |-> r.emissionsAndOffset.newOffsetCost]
BestSellerAnswer ==
  Answered /\ resp.route \in {"best-sellers", "best-sellers-analysis"} /\ resp.status = 200

\* C11: in a best-seller scenario a record that is not selected adds to every
\* projected total what it adds to the baseline total; only the selected
\* records are projected with the discount
UnselectedUnchanged ==
  BestSellerAnswer =>
    SameTotals(ProjectedTotals(resp),
               FramedTotals(resp.route, csv, julySales(csv), resp.discounted,
                            IF resp.route = "best-sellers" THEN resp.bestSellerThreshold
                            ELSE Zero,
                            1, ZeroTotals))

\* the company revenue a response reports, with its promoted products
ReportsRevenue ==
  /\ pc = "done"
  /\ resp.route \in {"emissions", "best-sellers-data", "processProductData"}
  /\ resp.route = "processProductData" \/ resp.status = 200
RevenueReport(r) ==
  IF r.route = "processProductData"
  THEN [baseline |-> r.companyTotals.totalBaselineSales,
        projected |-> r.companyTotals.totalProjectedSales]
  ELSE [baseline |-> r.totals.companyBaselineRevenue,
        projected |-> r.totals.companyProjectedRevenue]
RevenueIdentity(report, products) ==
  SameNum(report.projected,
          NAdd(NSub(report.baseline, SumField(products, "baselineSales", 1, Zero)),
               SumField(products, "projectedSales", 1, Zero)))

\* C12: the projected company revenue of a response is the baseline company
\* revenue minus the baseline revenue of the promoted products plus their
\* projected revenue
CompanyRevenueIdentity ==
  ReportsRevenue => RevenueIdentity(RevenueReport(resp), resp.products)

\* a factor in kilograms: a 'g CO2' factor is divided by 1000, a 'kg CO2'
\* factor passes through
InKilograms(row) ==
  IF row = Undefined THEN Zero
  ELSE IF row.Units \in {"g CO2", "g co2"}
  THEN NDiv(parseFloat(row.Est_Emission_Int), Int2Num(1000))
  ELSE parseFloat(row.Est_Emission_Int)
\* the emissions of a processed product are its volume times the factors in
\* kilograms
FactorsInKilograms(data, p, productInfo, volume) ==
  /\ SameNum(p.categoryEmissions,
             NMul(InKilograms(FindCategory(data.categories, productInfo)), volume))
  /\ SameNum(p.brandEmissions,
             NMul(InKilograms(FindBrand(data.brands, productInfo.BrandKey)), volume))
  /\ SameNum(p.supplierEmissions,
             NMul(NMul(InKilograms(FindSupplier(data.suppliers, productInfo.SupplierKey)),
                       parseFloat(FindSupplier(data.suppliers,
                                               productInfo.SupplierKey).Distance_mi)),
                  volume))
VolumeOf(entries, key) ==
  entries[FindIndex(entries, {"productKey"}, [productKey |-> key], 1)].totalVolume
EmissionsAnswer == pc = "done" /\ resp.route = "emissions" /\ resp.status = 200

\* C13: every emission factor is brought to kilograms before it is combined:
\* a factor labelled 'g CO2' is divided by 1000, a factor labelled 'kg CO2' is
\* taken as it is, for the category, the brand and the supplier factor alike
UnitsNormalized ==
  EmissionsAnswer =>
    \A j \in 1..Len(resp.products) :
      FactorsInKilograms(csv, resp.products[j],
                         FindProduct(csv.products, resp.products[j].productKey),
                         VolumeOf(SalesByProduct(csv.sales, 1, <<>>),
                                  resp.products[j].productKey))

\* the factor of a row as the table gives it, 0 for a missing row
RawFactor(row) == IF row = Undefined THEN Zero ELSE parseFloat(row.Est_Emission_Int)
SupplierDistance(supplier) ==
  IF supplier = Undefined THEN Zero ELSE parseFloat(supplier.Distance_mi)
\* categoryFactor + brandFactor + supplierFactor * shippingDistance
SumOfFactors(category, brand, supplier, distance) ==
  NAdd(NAdd(category, brand), NMul(supplier, distance))
\* perUnit is that sum over the rows matching the product's category levels,
\* brand key and supplier key, with the factors as given or in kilograms
PerUnitAsClaimed(perUnit, category, brand, supplier) ==
  \/ SameNum(perUnit, SumOfFactors(RawFactor(category), RawFactor(brand),
                                   RawFactor(supplier), SupplierDistance(supplier)))
  \/ SameNum(perUnit, SumOfFactors(InKilograms(category), InKilograms(brand),
                                   InKilograms(supplier), SupplierDistance(supplier)))
PerUnitOfProduct(perUnit, data, product) ==
  PerUnitAsClaimed(perUnit, FindCategory(data.categories, product),
                   FindBrand(data.brands, product.BrandKey),
                   FindSupplier(data.suppliers, product.SupplierKey))

\* C14: the emissions per unit a scenario uses for a product are categoryFactor
\* + brandFactor + supplierFactor * shippingDistance, the rows being those of
\* the product's category levels, brand key and supplier key
PerUnitEmissionsByKeys ==
  /\ (pc = "done" /\ resp.route = "best-sellers" /\ resp.status = 200) =>
       \A j \in 1..Len(csv.products) :
         PerUnitOfProduct(BestSellersEmissionsPerUnit(csv)[csv.products[j].ProductKey],
                          csv, csv.products[j])
  /\ (pc = "done" /\ resp.route = "processProductData") =>
       \A j \in 1..Len(resp.products) :
         PerUnitOfProduct(resp.products[j].emissionsPerUnit, csv,
                          FindProduct(csv.products, resp.products[j].productKey))

\* every product of `entries` that has a row in the product table is among
\* the products of the response r
AllProcessed(r, data, entries) ==
  \A j \in 1..Len(entries) :
    FindProduct(data.products, entries[j].productKey) # Undefined =>
      /\ r.route = "emissions" => r.status = 200
      /\ "products" \in DOMAIN r
      /\ \E k \in 1..Len(r.products) : r.products[k].productKey = entries[j].productKey

\* C15: a product whose category, brand or supplier row is missing is still
\* processed, the missing factor counting as zero: as long as no more products
\* are sold than a scenario selects, every product sold is in the answer, and
\* the answer is never the error response
MissingRowStillProcessed ==
  /\ (pc = "done" /\ resp.route = "emissions") =>
       AllProcessed(resp, csv, SalesByProduct(csv.sales, 1, <<>>))
  /\ (pc = "done" /\ resp.route = "processProductData") =>
       AllProcessed(resp, csv, GroupSales(csv.sales, 1, <<>>))
  /\ (pc = "done" /\ resp.route = "low-emissions") =>
       resp.status = 200 /\ resp.count = Len(julySales(csv))

\* the projected figures of a record under the linear response
LinearVolume(volume, elasticity, discount) ==
  NMul(volume, NAdd(One, NMul(elasticity, discount)))
LinearSales(price, volume, elasticity, discount) ==
  NMul(NMul(price, NSub(One, discount)), LinearVolume(volume, elasticity, discount))
LinearFigures(price, volume, elasticity, margin, perUnit, discount, rate) ==
  [newPrice |-> NMul(price, NSub(One, discount)),
   newVolume |-> LinearVolume(volume, elasticity, discount),
   sales |-> LinearSales(price, volume, elasticity, discount),
   profit |-> NMul(LinearSales(price, volume, elasticity, discount), margin),
   emissions |-> NMul(LinearVolume(volume, elasticity, discount), perUnit),
   offsetCost |-> NMul(NMul(LinearVolume(volume, elasticity, discount), perUnit), rate)]
\* a record of the supplier analysis carries these figures
RecordIsLinear(p, lin) ==
  /\ SameNum(p.newPrice, lin.newPrice) /\ SameNum(p.newVolume, lin.newVolume)
  /\ SameNum(p.newSales, lin.sales) /\ SameNum(p.newGrossProfit, lin.profit)
  /\ SameNum(p.newEmissions, lin.emissions) /\ SameNum(p.newOffsetCost, lin.offsetCost)
SupplierRecordIsLinear(p, product) ==
  RecordIsLinear(p, LinearFigures(p.originalPrice, p.originalVolume,
                                  parseFloat(product.Elasticity), p.marginPercent,
                                  p.totalEmissionsPerUnit, Rat(3, 20), Rat(1, 4)))
\* the emissions per unit a scenario uses for the product of a sale
PerUnitUsed(route, data, sale, product) ==
  IF route = "best-sellers"
  THEN LookupOrZero(BestSellersEmissionsPerUnit(data), sale.ProductKey)
  ELSE MergedRecord(data, sale, product).Total_Emission_per_unit
\* the sum of the linear figures of the July records
LinearOfSale(route, data, sale, product, discount) ==
  LinearFigures(parseFloat(sale.PredictedPrice), parseFloat(sale.EstimatedUnitVolume),
                parseFloat(product.Elasticity),
                NDiv(parseFloat(replacePct(product.Margin)), Int2Num(100)),
                PerUnitUsed(route, data, sale, product), discount, Rat(1, 4))
RECURSIVE LinearTotals(_, _, _, _, _, _)
LinearTotals(route, data, sales, discount, j, acc) ==
  IF j > Len(sales) THEN acc
  ELSE LinearTotals(route, data, sales, discount, j + 1,
         AddTotals(acc, LinearOfSale(route, data, sales[j],
                                     FindProduct(data.products, sales[j].ProductKey),
                                     discount)))
\* every July record of the answer was discounted
AllDiscounted ==
  /\ pc = "done" /\ resp.route \in {"best-sellers", "low-emissions"} /\ resp.status = 200
  /\ resp.route = "best-sellers" => resp.discounted = 1..resp.count
  /\ resp.route = "low-emissions" => resp.count = Len(julySales(csv))
\* price 100, volume 10, elasticity 2, margin 0.2, emissions per unit 5, under
\* the discount 0.10 and the offset rate 0.25 of the best-sellers handler
ExampleRecord ==
  /\ pc = "done" /\ resp.route = "best-sellers" /\ resp.status = 200
  /\ julySales(csv) = <<SaleRow("P1", "7", 10, 100)>>
  /\ csv.products[1].ProductKey = "P1"
  /\ parseFloat(csv.products[1].Elasticity) = Int2Num(2)
  /\ csv.products[1].Margin = Pct(20)
  /\ BestSellersEmissionsPerUnit(csv)["P1"] = Int2Num(5)
ExampleFigures ==
  /\ LinearFigures(Int2Num(100), Int2Num(10), Int2Num(2), Rat(1, 5), Int2Num(5),
                   Rat(1, 10), Rat(1, 4))
       = [newPrice |-> Int2Num(90), newVolume |-> Int2Num(12), sales |-> Int2Num(1080),
          profit |-> Int2Num(216), emissions |-> Int2Num(60), offsetCost |-> Int2Num(15)]
  /\ resp.new = [totalSales |-> Int2Num(1080), totalProfit |-> Int2Num(216),
                 totalEmissions |-> Int2Num(60), totalOffsetCost |-> Int2Num(15)]

TripleBaseline(sale, product) ==
  [sales |-> NMul(parseFloat(sale.EstimatedUnitVolume), parseFloat(sale.PredictedPrice)),
   profit |-> NMul(NMul(parseFloat(sale.EstimatedUnitVolume),
                        parseFloat(sale.PredictedPrice)),
                   NDiv(parseFloat(replacePct(product.Margin)), Int2Num(100)))]
RECURSIVE TripleBaselines(_, _, _, _)
TripleBaselines(sales, products, j, acc) ==
  IF j > Len(sales) THEN acc
  ELSE TripleBaselines(sales, products, j + 1,
         IF FindProduct(products, sales[j].ProductKey) = Undefined THEN acc
         ELSE [sales |-> NAdd(acc.sales,
                              TripleBaseline(sales[j],
                                             FindProduct(products,
                                                         sales[j].ProductKey)).sales),
               profit |-> NAdd(acc.profit,
                               TripleBaseline(sales[j],
                                              FindProduct(products,
                                                          sales[j].ProductKey)).profit)])
\* the baseline sales and profit a response reports over all July records
ReportedBaseline(r) ==
  IF r.route = "best-sellers"
  THEN [sales |-> r.baseline.totalSales, profit |-> r.baseline.totalProfit]
  ELSE [sales |-> r.sales.baselineRevenue, profit |-> r.profit.baselineTotalProfit]
SameBaseline(s, t) == SameNum(s.sales, t.sales) /\ SameNum(s.profit, t.profit)

\* C17: every scenario takes the baseline of a record from the same triple:
\* baselineSales = volume * price and baselineProfit = baselineSales * margin,
\* the margin text being a percentage turned into a fraction, so that the same
\* records give the same baseline sales and profit in every scenario
BaselineFromTriple ==
  BestSellerAnswer =>
    SameBaseline(ReportedBaseline(resp),
                 TripleBaselines(julySales(csv), csv.products, 1,
                                 [sales |-> Zero, profit |-> Zero]))

\* the emissions per unit of a processed product: its emissions by its volume
PerUnitOf(p, entries) == NDiv(p.totalEmissions, VolumeOf(entries, p.productKey))
\* the products are in ascending order of their emissions per unit
AscendingPerUnit(products, entries) ==
  \A j \in 1..Len(products) : \A k \in (j + 1)..Len(products) :
    ~NGT(PerUnitOf(products[j], entries), PerUnitOf(products[k], entries))

\* C18: the promoted products of a low-emission scenario are the first N of
\* the products in ascending order of emissions per unit, not of total
\* emissions: the promoted list of the answer ascends in emissions per unit
LowestPerUnitFirst ==
  EmissionsAnswer => AscendingPerUnit(resp.products, SalesByProduct(csv.sales, 1, <<>>))

\* the sum of the EstimatedSales of the rows of `sales` of the product `key`
RECURSIVE SalesOfProduct(_, _, _, _)
SalesOfProduct(sales, key, j, acc) ==
  IF j > Len(sales) THEN acc
  ELSE SalesOfProduct(sales, key, j + 1,
         IF sales[j].ProductKey = key THEN NAdd(acc, parseFloat(sales[j].EstimatedSales))
         ELSE acc)
\* the products of the answer are distinct, each with the sales of all its rows
OneObservationEach(products, sales) ==
  /\ \A j \in 1..Len(products) : \A k \in (j + 1)..Len(products) :
       products[j].productKey # products[k].productKey
  /\ \A j \in 1..Len(products) :
       SameNum(products[j].baselineSales,
               SalesOfProduct(sales, products[j].productKey, 1, Zero))

\* C19: the July rows of one product are summed into one observation before
\* selection and projection: a product takes at most one slot of the selected
\* set, and its baseline is the sum over all its July rows
OneSlotPerProduct ==
  /\ EmissionsAnswer => OneObservationEach(resp.products, julySales(csv))
  /\ (pc = "done" /\ resp.route = "low-emissions" /\ resp.status = 200) =>
       resp.count <= Cardinality(ProductKeys(julySales(csv)))

\* the same tables with every product's elasticity raised by one: each product
\* of the twin differs from its original in nothing but the elasticity
ElasticityTwin(data) ==
  [data EXCEPT !.products =
     [j \in 1..Len(data.products) |->
        [data.products[j] EXCEPT !.Elasticity = Txt(@.n + @.d, @.d)]]]
\* the projected figures of the promoted products differ from those of twins
DiffersFromTwin(products, twins) ==
  \A j \in 1..Len(products) :
    NGT(products[j].baselineSales, Zero) =>
      /\ ~SameNum(products[j].projectedSales, twins[j].projectedSales)
      /\ ~SameNum(products[j].volumeUplift, twins[j].volumeUplift)
BestSellersData == pc = "done" /\ resp.route = "best-sellers-data"

\* C20: the projected volume of a discounted product comes from the product's
\* own elasticity: a product that differs from another only in its elasticity
\* gets another projected volume and other projected sales under the discount
OwnElasticityUsed ==
  /\ BestSellersData =>
       DiffersFromTwin(resp.products, BestSellersDataResponse(ElasticityTwin(csv)).products)
  /\ (pc = "done" /\ resp.route = "best-sellers" /\ resp.status = 200
        /\ NGT(resp.baseline.totalSales, Zero)) =>
       ~SameNum(resp.new.totalSales,
                BestSellersResponse(ElasticityTwin(csv)).new.totalSales)

(***************************************************************************)
(* Properties of the response conventions                                  *)
(***************************************************************************)
LinearApplied == resp.route = "formulas" /\ resp.linear # Null
FormulaVolume == parseFloat(csv.sales[1].EstimatedUnitVolume)
FormulaPrice == parseFloat(csv.sales[1].PredictedPrice)
FormulaElasticity == parseFloat(csv.products[1].Elasticity)

\* C21: in the linear-response model a discount rate of 0 is the identity:
\* the new price is the price and the new volume is the volume, for every
\* price, volume and elasticity, hence the projected sales, profit, emissions
\* and offset cost equal their baselines.
ZeroRateIsIdentity ==
  (LinearApplied /\ bestDiscount = Zero) =>
    /\ SameNum(resp.linear.NewPrice, FormulaPrice)
    /\ SameNum(resp.linear.NewVolume, FormulaVolume)
    /\ SameNum(resp.linear.NewSales, resp.linear.BaselineSales)
    /\ SameNum(resp.linear.NewProfit, resp.linear.BaselineProfit)
    /\ SameNum(resp.linear.NewEmissions, resp.linear.BaselineEmissions)
    /\ SameNum(resp.linear.NewOffsetCost, resp.linear.BaselineOffsetCost)
\* a record with sales, emissions and a steep negative elasticity, at rate 0
SteepRecordAtZeroRate ==
  /\ LinearApplied /\ bestDiscount = Zero
  /\ FormulaElasticity = Int2Num(-SteepElasticity)
  /\ resp.linear.NewSales = Int2Num(1000)
  /\ resp.linear.NewEmissions = Int2Num(80)

\* a product of elasticity 0 keeps its volume and sells it at the lower price
KeepsVolume(p, product, discount) ==
  NumberOrZero(product.Elasticity) = Zero =>
    /\ SameNum(p.volumeUplift, One)
    /\ SameNum(p.projectedSales, NMul(p.baselineSales, NSub(One, discount)))

\* C22: in the power-law model an elasticity of 0 gives a volume uplift
\* (1 - discount)^(-0) = 1, so the projected volume is the baseline volume
\* and the projected sales are the baseline sales times (1 - discount)
ZeroElasticityKeepsVolume ==
  /\ EmissionsAnswer =>
       \A k \in 1..Len(resp.products) :
         KeepsVolume(resp.products[k],
                     FindProduct(csv.products, resp.products[k].productKey),
                     Emissions_discountPercent)
  /\ (pc = "done" /\ resp.route = "processProductData") =>
       \A k \in 1..Len(resp.products) :
         KeepsVolume(resp.products[k],
                     FindProduct(csv.products, resp.products[k].productKey),
                     DISCOUNT_PERCENT)

FlooredApplied == resp.route = "formulas" /\ resp.floored # Null
FormulaFactor == parseFloat(csv.brands[1].Est_Emission_Int)
NotNegative(x) == ~NLT(x, Zero)

\* C23: during the optimization search the projected volume of a product is
\* max(0, volume * (1 - elasticity * pctPriceChange)) and is never negative,
\* for every discount rate of the search and every elasticity (steep negative
\* elasticities included), so the projected sales and emissions of a product
\* with a non-negative price and emission factor are never negative; with a
\* non-zero price the three are numbers that are at least 0.
FlooredNeverNegative ==
  FlooredApplied =>
    /\ NotNegative(resp.floored.newVolume)
    /\ NotNegative(resp.floored.newSales)
    /\ NotNegative(resp.floored.newEmissions)
    /\ FormulaPrice # Zero =>
         /\ NGE(resp.floored.newVolume, Zero)
         /\ NGE(resp.floored.newSales, Zero)
         /\ NGE(resp.floored.newEmissions, Zero)
\* the floor is active: the unfloored volume is negative and the floored is 0
FloorActive ==
  /\ FlooredApplied
  /\ FormulaPrice = Int2Num(100) /\ FormulaFactor = Int2Num(8)
  /\ NLT(LinearVolume(FormulaVolume, FormulaElasticity, bestDiscount), Zero)
  /\ resp.floored.newVolume = Zero
  /\ resp.floored.newEmissions = Zero

\* C24: running the same scenario twice on the same input tables yields the
\* same outputs: no scenario result, and no per-unit emission value fed to a
\* scenario, depends on randomness or on state left by an earlier run; two
\* loads of the same tables give the same emissions per unit
SameInputSameEmissions ==
  (resp.route = "loadCSVData" /\ resp.second # Null) =>
    resp.second.emissionsPerUnit = resp.first.emissionsPerUnit

Evaluated(point) == \E j \in 1..Len(resp.order) : resp.order[j] = point
CachedAreFresh ==
  resp.route = "evaluations" =>
    /\ Evaluated("c") => fc = objectiveFunction(csv, c)
    /\ Evaluated("d") => fd = objectiveFunction(csv, d)

StartedInOrder == NLT(a0, b0)

\* C26: at the start of every iteration of goldenSectionSearch started with
\* a < b, a0 <= a < c < d < b <= b0 (the bracket never leaves the initial
\* bounds), the cached values are fc = f(c) and fd = f(d), and one new
\* evaluation of f was made per shrink; the returned midpoint is strictly
\* inside (a0, b0), so neither initial bound is ever returned
BracketInvariant ==
  /\ (pc = "search" /\ StartedInOrder) =>
       /\ NLE(a0, a) /\ NLT(a, c) /\ NLT(c, d) /\ NLT(d, b) /\ NLE(b, b0)
       /\ SameNum(fc, Objective(f, c))
       /\ SameNum(fd, Objective(f, d))
       /\ evals = i + 2
  /\ (pc = "returned" /\ StartedInOrder) =>
       /\ NGT(bestDiscount, a0) /\ NLT(bestDiscount, b0)
       /\ evals = i + 2
\* a search of a concave objective that shrank on both sides and returned
ShrankOnBothSides ==
  /\ pc = "returned" /\ StartedInOrder
  /\ f.kind = "concave" /\ i >= 3
  /\ NGT(a, a0) /\ NLT(b, b0)
  /\ NGT(bestDiscount, a) /\ NLT(bestDiscount, b)

BothApplied == LinearApplied /\ FlooredApplied
\* 1 + elasticity * discount, the factor of the linear response
ResponseFactor == NAdd(One, NMul(FormulaElasticity, bestDiscount))

\* C27: for every record with a non-zero baseline price and a non-negative
\* baseline volume, and every discount and elasticity with
\* 1 + elasticity * discount >= 0, the percentage-change-floored convention of
\* calculateMetricsForDiscount yields the same new price and new volume as
\* the linear response volume * (1 + elasticity * discount) of the
\* fixed-discount scenarios; the two differ only when the floor at zero is
\* active
FlooredAgreesWithLinear ==
  (BothApplied /\ FormulaPrice # Zero /\ NGE(FormulaVolume, Zero)) =>
    /\ SameNum(resp.floored.newPrice, resp.linear.NewPrice)
    /\ NGE(ResponseFactor, Zero) =>
         SameNum(resp.floored.newVolume, resp.linear.NewVolume)
    /\ ~SameNum(resp.floored.newVolume, resp.linear.NewVolume) =>
         /\ NLT(resp.linear.NewVolume, Zero)
         /\ resp.floored.newVolume = Zero
\* both conventions applied to a record whose volume the response raises
ConventionsAgreeOnUplift ==
  /\ BothApplied
  /\ FormulaPrice = Int2Num(40) /\ FormulaVolume = Int2Num(10)
  /\ FormulaElasticity = Int2Num(2) /\ bestDiscount = Rat(1, 5)
  /\ resp.floored.newVolume = Int2Num(14)
  /\ resp.linear.NewVolume = Int2Num(14)
  /\ resp.floored.newSales = Int2Num(448)

NonNegativeInputs ==
  /\ NGE(FormulaVolume, Zero) /\ NGE(FormulaPrice, Zero) /\ NGE(FormulaFactor, Zero)

\* C28: in every fixed-discount linear-response scenario the projected
\* volume, sales and emissions of a record are non-negative whenever its
\* baseline volume, price and emission factor are non-negative, for every
\* signed elasticity
LinearScenarioNonNegative ==
  /\ (pc = "done" /\ resp.route = "low-emissions" /\ NonNegativeInputs) =>
       /\ NGE(resp.new.totalSales, Zero)
       /\ NGE(resp.new.totalEmissions, Zero)
  /\ (pc = "done" /\ resp.route = "supplier-analysis" /\ NonNegativeInputs) =>
       \A k \in 1..Len(resp.products) :
         /\ NGE(resp.products[k].newVolume, Zero)
         /\ NGE(resp.products[k].newSales, Zero)
         /\ NGE(resp.products[k].newEmissions, Zero)

(***************************************************************************)
(* Properties of the components                                            *)
(***************************************************************************)
\* C29: ProtectedLayout never renders its children while the session is
\* null: in every interleaving of the getSession result and the auth state
\* changes, the protected content is shown only in states where a non-null
\* session is held
ChildrenOnlyWithSession ==
  (pc = "mounted" /\ LayoutView = "children") => session # Null

\* the last call of fetchData got two ok responses and parsed their bodies
LastFetchSucceeded ==
  /\ pc = "mounted" /\ pending.phase = "idle"
  /\ resp.bodies = "parsed"

\* C30: in PromotionsComparison, after a failed fetch followed by a Retry
\* whose two requests both succeed, the component ends with loading = false,
\* error = null and the data set, so that the comparison view is displayed
\* and not the error panel; and a call of fetchData that settled has set
\* loading back to false
RetryShowsComparison ==
  /\ LastFetchSucceeded =>
       /\ loading = FALSE /\ error = Null /\ comparison # Null
       /\ ComparisonView = "comparison"
  /\ (pc = "mounted" /\ pending.phase = "idle") => loading = FALSE

====
